---- MODULE Spec2Model ----
(***************************************************************************)
(* Generic-constraint checking of lib/Sema/TypeCheckGeneric.cpp.           *)
(*                                                                         *)
(* SpecArgs  models TypeChecker::checkGenericArguments: one step per       *)
(*           iteration of its work-list loop and of its inner loop over    *)
(*           the requirements of the set being processed.                  *)
(* SpecWorkList is SpecArgs for the calls whose requirements are           *)
(*           conformance and layout requirements.                          *)
(* SpecTwoCalls runs two listener-free calls of checkGenericArguments,     *)
(*           switching between them after any loop iteration; the          *)
(*           diagnostics go to the one DiagnosticEngine of the context.    *)
(* SpecRef   models TypeChecker::checkReferencedGenericParams: one step    *)
(*           per visited generic parameter and per visited requirement.    *)
(* SpecSig   models TypeChecker::validateGenericFuncOrSubscriptSignature,  *)
(*           validateGenericTypeSignature and checkGenericEnvironment:     *)
(*           one step per statement that touches the builder, a type       *)
(*           location or the declaration's generic environment.            *)
(* SpecOpaque models a sequence of calls of                                *)
(*           TypeChecker::getOrCreateOpaqueResultType for one declaration. *)
(* SpecDemand models the requests for the generic environment of           *)
(*           declarations that lead to the calls of the validate           *)
(*           functions, nested requests included.                          *)
(***************************************************************************)
EXTENDS Integers, Sequences, FiniteSets, TLC

VARIABLES
  \* ---- checkGenericArguments: arguments of the call
  requirements,      \* ArrayRef<Requirement> requirements
  substitutions,     \* TypeSubstitutionFn substitutions
  listener,          \* GenericRequirementsCheckListener *listener (non-null?)
  loc,               \* SourceLoc loc (isValid()?)
  \* ---- checkGenericArguments: locals
  valid,             \* bool valid
  pendingReqs,       \* SmallVector<RequirementSet, 8> pendingReqs
  current,           \* RequirementSet current
  idx,               \* position of the inner for loop in current.Requirements
  result,            \* the RequirementCheckResult returned, "none" before
  \* ---- checkGenericArguments: what the call did to its collaborators
  diags,             \* events handed to ctx.Diags by checkGenericArguments
  trace,             \* one entry per pop of the work-list and per requirement
  listenerCalls,     \* calls of satisfiedConformance / diagnoseUnsatisfied...
  \* ---- checkReferencedGenericParams
  rdecl,             \* GenericContext *dc: kind, parameter list, signature,
                     \* and the types of decl's GenericFunctionType
  declInterfaceType, \* decl->getInterfaceType(): "function" or "error"
  declInvalid,       \* decl->isInvalid()
  referencedGenericParams, \* SmallPtrSet<CanType, 4> ReferencedGenericParams
  rreqs,             \* ArrayRef<Requirement> requirements (the lazy local)
  rpc,               \* position: "entry", "params", "reqs", "after", "done"
  rparam,            \* index of the for loop over getGenericParams()
  rreq,              \* index of the for loop inside the fixed-point pass
  rfound,            \* bool foundNewReferencedGenericParam of the current pass
  rpasses,           \* completed passes of the current while (true) loop
  rdiags,            \* unreferenced_generic_parameter diagnostics
  rvisits,           \* requirements handed to reqTypesVisitor, in order
  \* ---- validateGenericFuncOrSubscriptSignature, validateGenericTypeSignature,
  \* ---- checkGenericEnvironment
  sdecl,             \* the declaration being validated and its context
  spc,               \* position in the function(s)
  genericEnvironment, \* genCtx->getGenericEnvironment() of the declaration
  sig,               \* GenericSignature *sig (the local of either function)
  builder,           \* the local GenericSignatureBuilder: what was fed to it
  buildersCreated,   \* GenericSignatureBuilder objects constructed so far
  envsCreated,       \* createGenericEnvironment() calls so far
  resultTyLoc,       \* TypeLoc &resultTyLoc
  params,            \* the TypeLocs of func->getParameters() / getIndices()
  envCall,           \* arguments of the call of checkGenericEnvironment
  envReturned,       \* the GenericEnvironment* checkGenericEnvironment returned
  steps,             \* the statements executed, in order
  \* ---- getOrCreateOpaqueResultType
  odecl,             \* ValueDecl *originatingDecl and the constraint of repr
  opc,               \* position in the call, "idle" between two calls
  opaqueResultTypeDecl, \* originatingDecl->getOpaqueResultTypeDecl()
  obuilder,          \* the calls made on the GenericSignatureBuilder builder
  returnTypeParam,   \* the GenericTypeParamType made by the call
  interfaceSignature, \* the signature computed by the call
  ocalls,            \* the calls that returned: path taken, type returned
  odiags,            \* diagnostics emitted by the calls
  ocreated,          \* builders, generic parameters and OpaqueTypeDecls made
  \* ---- the requests for the generic environment of declarations
  envSets,           \* per declaration: setGenericEnvironment calls so far
  inProgress,        \* the declarations being validated, innermost last
  requests,          \* the requests made: declaration, state found, outcome
  cycles,            \* declarations reported as cyclic dependencies
  assertFailed,      \* assert(!typeDecl->getGenericEnvironment()) failed
  \* ---- a second call of checkGenericArguments, interleaved with the first
  suspended,         \* the arguments and locals of the call that is not running
  running,           \* which of the two calls owns the variables above: 1, 2
  interleaved,       \* a switch happened while both calls were in their loops
  \* ---- a GenericSignatureBuilder fed in any order
  gsbRequirements,   \* the requirements to add, as written
  gsbAdded,          \* the positions of gsbRequirements added so far
  gsbCalls,          \* the calls made on the builder, in order
  gsbSignature       \* what computeGenericSignature returned

argVars == <<requirements, substitutions, listener, loc, valid, pendingReqs,
             current, idx, result, diags, trace, listenerCalls>>
refVars == <<rdecl, declInterfaceType, declInvalid, referencedGenericParams,
             rreqs, rpc, rparam, rreq, rfound, rpasses, rdiags, rvisits>>
sigVars == <<sdecl, spc, genericEnvironment, sig, builder, buildersCreated,
             envsCreated, resultTyLoc, params, envCall, envReturned, steps>>
opaqueVars == <<odecl, opc, opaqueResultTypeDecl, obuilder, returnTypeParam,
                interfaceSignature, ocalls, odiags, ocreated>>
demandVars == <<envSets, inProgress, requests, cycles, assertFailed>>
callVars == <<suspended, running, interleaved>>
builderVars == <<gsbRequirements, gsbAdded, gsbCalls, gsbSignature>>
vars == <<argVars, refVars, sigVars, opaqueVars, demandVars, callVars,
          builderVars>>

\* the variables of the functions other than the one a specification runs
notArgs == <<refVars, sigVars, opaqueVars, demandVars, callVars,
  builderVars>>
notRef == <<argVars, sigVars, opaqueVars, demandVars, callVars,
  builderVars>>
notSig == <<argVars, refVars, opaqueVars, demandVars, callVars,
  builderVars>>
notOpaque == <<argVars, refVars, sigVars, demandVars, callVars,
  builderVars>>
notDemand == <<argVars, refVars, sigVars, opaqueVars, callVars,
  builderVars>>
notBuilder == <<argVars, refVars, sigVars, opaqueVars, demandVars, callVars>>

(***************************************************************************)
(* Bounds.                                                                 *)
(***************************************************************************)
\* longest requirement list handed to checkGenericArguments
MaxReqs == 3
\* deepest nesting Box<...Box<E>...> of a type argument
MaxNesting == 2

(***************************************************************************)
(* Types.  A type is a record [base, boxes]: the nominal or parameter name *)
(* wrapped in `boxes` applications of the generic struct Box<E>.           *)
(***************************************************************************)
Ty(b, n) == [base |-> b, boxes |-> n]

\* Type(): the null type a substitution function returns when it has no answer
NullType == Ty("<<null>>", 0)
\* ErrorType::get(ctx)
ErrorType == Ty("<<error>>", 0)

\* the generic parameters of the signature being checked
GenericParams == {"T", "U"}
\* a generic parameter of the calling context and its archetype in dc
CallerParams == {"X"}

hasError(t) == t.base = "<<error>>"
\* the generic parameters of the signature of the declaration handed to
\* checkReferencedGenericParams: O of the enclosing context, the others of
\* the declaration's own generic parameter list
SignatureParams == <<"O", "T1", "T2", "T3", "U">>
getDepth(p) == IF p = "O" THEN 0 ELSE 1

hasTypeParameter(t) ==
  t.base \in GenericParams \cup CallerParams
              \cup { SignatureParams[i] : i \in DOMAIN SignatureParams }
mapTypeIntoContext(t) == [t EXCEPT !.base = "$" \o t.base]

(***************************************************************************)
(* Requirements.  Layout requirements carry the layout constraint in       *)
(* `second`; the code reads no second type for them.                       *)
(***************************************************************************)
Req(k, a, b) == [kind |-> k, first |-> a, second |-> b]
Conformance(a, p) == Req("Conformance", a, Ty(p, 0))
Superclass(a, c)  == Req("Superclass", a, c)
SameType(a, b)    == Req("SameType", a, b)
Layout(a)         == Req("Layout", a, Ty("AnyObject", 0))
NoRequirement     == Req("None", NullType, NullType)

\* Type::subst on a type of a raw requirement
substType(t) ==
  IF t.base \in GenericParams
    THEN LET s == substitutions[t.base]
         IN IF s = NullType THEN NullType
            ELSE [s EXCEPT !.boxes = s.boxes + t.boxes]
    ELSE t

\* Requirement::subst: None when a side has no substituted type
subst(r) ==
  LET f == substType(r.first)
      s == IF r.kind = "Layout" THEN r.second ELSE substType(r.second)
  IN IF f = NullType \/ s = NullType THEN NoRequirement
     ELSE Req(r.kind, f, s)

(***************************************************************************)
(* The program being type-checked, as seen by the conformance lookup and   *)
(* the type predicates:                                                    *)
(*   struct Int: P, Q      struct Str       class Base    class Derived:   *)
(*   Base, P               struct Box<E>                                   *)
(*   extension Box: P where E: P                                           *)
(*   extension Box: Q where E: Q, E == Int                                 *)
(*   the caller's generic parameter X: P                                   *)
(***************************************************************************)
NoConformance == [found |-> FALSE, conditionalReqs |-> <<>>]
Conforming(cs) == [found |-> TRUE, conditionalReqs |-> cs]

\* conformsToProtocol(firstType, proto, dc, SkipConditionalRequirements, loc)
conformsToProtocol(t, p) ==
  IF t.boxes > 0
    THEN LET e == [t EXCEPT !.boxes = t.boxes - 1]
         IN CASE p = "P" -> Conforming(<<Conformance(e, "P")>>)
              [] p = "Q" -> Conforming(<<Conformance(e, "Q"),
                                          SameType(e, Ty("Int", 0))>>)
              [] OTHER   -> NoConformance
    ELSE CASE t.base = "Int" /\ p \in {"P", "Q"}   -> Conforming(<<>>)
           [] t.base = "Derived" /\ p = "P"         -> Conforming(<<>>)
           [] t.base = "$X" /\ p = "P"              -> Conforming(<<>>)
           [] OTHER                                 -> NoConformance

\* secondType->isExactSuperclassOf(firstType)
isExactSuperclassOf(c, t) ==
  /\ t.boxes = 0 /\ c.boxes = 0
  /\ \/ c.base = t.base /\ t.base \in {"Base", "Derived"}
     \/ c.base = "Base" /\ t.base = "Derived"

\* firstType->satisfiesClassConstraint()
satisfiesClassConstraint(t) == t.boxes = 0 /\ t.base \in {"Base", "Derived"}

\* firstType->isEqual(secondType)
isEqual(a, b) == a = b

(***************************************************************************)
(* checkGenericArguments: the requirement the inner loop is looking at.    *)
(***************************************************************************)
\* struct RequirementSet { Requirements; Parents; }
RequirementSet(rs, ps) == [Requirements |-> rs, Parents |-> ps]

\* the inner for loop has a requirement left / has run off the end of the set
InLoop  == result = "none" /\ idx <= Len(current.Requirements)
AtWhile == result = "none" /\ idx > Len(current.Requirements)

rawReq == current.Requirements[idx]

\* variant: no requirement is substituted
req_NotSubstituted == rawReq

\* req: substituted only for the set with the empty parent chain
req == IF current.Parents = <<>> THEN subst(rawReq) ELSE rawReq

firstType ==
  IF hasTypeParameter(req.first) THEN mapTypeIntoContext(req.first)
  ELSE req.first

\* secondType stays the null type for a Layout requirement
secondType ==
  IF req.kind = "Layout" THEN NullType
  ELSE IF hasTypeParameter(req.second) THEN mapTypeIntoContext(req.second)
  ELSE req.second

\* "Don't do further checking on error types."
carriesError ==
  hasError(firstType) \/ (secondType # NullType /\ hasError(secondType))

\* the requirement got past substitution and the error-type test
Substituted == InLoop /\ req # NoRequirement /\ ~carriesError

\* the kind-specific check of the switch statement fails
KindCheckFails(k, f, s, r) ==
  CASE k = "Conformance" -> ~conformsToProtocol(f, s.base).found
    [] k = "Layout"      -> r.second.base = "AnyObject"
                              /\ ~satisfiesClassConstraint(f)
    [] k = "Superclass"  -> ~isExactSuperclassOf(s, f)
    [] k = "SameType"    -> ~isEqual(f, s)

requirementFailure == KindCheckFails(req.kind, firstType, secondType, req)

\* the Diag<> chosen by the failing case of the switch
diagnostic(k) ==
  CASE k = "Conformance" -> "type_does_not_conform_owner"
    [] k = "Layout"      -> "type_is_not_a_class"
    [] k = "Superclass"  -> "type_does_not_inherit"
    [] k = "SameType"    -> "types_not_equal"

diagnosticNote(k) ==
  CASE k = "Conformance" -> "type_does_not_inherit_or_conform_requirement"
    [] k = "Layout"      -> "anyobject_requirement"
    [] k = "Superclass"  -> "type_does_not_inherit_or_conform_requirement"
    [] k = "SameType"    -> "types_not_equal_requirement"

\* the three ctx.Diags calls of one failure: error, note, conformance stack
DiagnosticEvent ==
  [primary |-> [diag |-> diagnostic(req.kind),
                first |-> firstType, second |-> secondType],
   note    |-> [diag |-> diagnosticNote(req.kind),
                first |-> rawReq.first,
                second |-> IF req.kind = "Layout" THEN NullType
                           ELSE rawReq.second],
   stack   |-> current.Parents]

\* one entry of the trace: what happened to the requirement at `idx`
Entry(ev, f, s) ==
  [ev |-> ev, parents |-> current.Parents, raw |-> rawReq,
   first |-> f, second |-> s]

Step(ev) == trace' = Append(trace, Entry(ev, firstType, secondType))

(***************************************************************************)
(* checkGenericArguments: the steps.                                       *)
(***************************************************************************)
\* variant: the loop takes the oldest set of the work-list
PopPending_OldestFirst ==
  /\ AtWhile /\ pendingReqs # <<>>
  /\ current' = Head(pendingReqs)
  /\ pendingReqs' = Tail(pendingReqs)
  /\ idx' = 1
  /\ trace' = Append(trace, [ev |-> "pop",
                             parents |-> Head(pendingReqs).Parents,
                             raw |-> NoRequirement,
                             first |-> NullType, second |-> NullType])
  /\ UNCHANGED <<notArgs, requirements, substitutions, listener, loc, valid,
                 result, diags, listenerCalls>>

\* variant: the loop reads the last set of the work-list without removing it
PopPending_Peeks ==
  /\ AtWhile /\ pendingReqs # <<>>
  /\ current' = pendingReqs[Len(pendingReqs)]
  /\ idx' = 1
  /\ trace' = Append(trace, [ev |-> "pop",
                             parents |-> pendingReqs[Len(pendingReqs)].Parents,
                             raw |-> NoRequirement,
                             first |-> NullType, second |-> NullType])
  /\ UNCHANGED <<notArgs, requirements, substitutions, listener, loc, valid,
                 pendingReqs, result, diags, listenerCalls>>

\* auto current = pendingReqs.pop_back_val();
PopPending ==
  /\ AtWhile /\ pendingReqs # <<>>
  /\ current' = pendingReqs[Len(pendingReqs)]
  /\ pendingReqs' = SubSeq(pendingReqs, 1, Len(pendingReqs) - 1)
  /\ idx' = 1
  /\ trace' = Append(trace, [ev |-> "pop",
                             parents |-> pendingReqs[Len(pendingReqs)].Parents,
                             raw |-> NoRequirement,
                             first |-> NullType, second |-> NullType])
  /\ UNCHANGED <<notArgs, requirements, substitutions, listener, loc, valid,
                 result,
                 diags, listenerCalls>>

\* the work-list is empty: return Success or SubstitutionFailure
ReturnResult ==
  /\ AtWhile /\ pendingReqs = <<>>
  /\ result' = IF valid THEN "Success" ELSE "SubstitutionFailure"
  /\ UNCHANGED <<notArgs, requirements, substitutions, listener, loc, valid,
                 pendingReqs, current, idx, diags, trace, listenerCalls>>

\* variant: a failed substitution ends the check at once
SubstFails_Returns ==
  /\ InLoop /\ current.Parents = <<>> /\ subst(rawReq) = NoRequirement
  /\ valid' = FALSE
  /\ result' = "SubstitutionFailure"
  /\ trace' = Append(trace, Entry("substFailure", NullType, NullType))
  /\ UNCHANGED <<notArgs, requirements, substitutions, listener, loc,
                 pendingReqs, current, idx, diags, listenerCalls>>

\* rawReq.subst(...) returned None
SubstFails ==
  /\ InLoop /\ current.Parents = <<>> /\ subst(rawReq) = NoRequirement
  /\ valid' = FALSE
  /\ idx' = idx + 1
  /\ trace' = Append(trace, Entry("substFailure", NullType, NullType))
  /\ UNCHANGED <<notArgs, requirements, substitutions, listener, loc,
                 pendingReqs,
                 current, result, diags, listenerCalls>>

\* variant: the error-type test skips the requirement but forgets valid = false
ErrorTypeSeen_KeepsValid ==
  /\ InLoop /\ req # NoRequirement /\ carriesError
  /\ idx' = idx + 1
  /\ Step("errorType")
  /\ UNCHANGED <<notArgs, requirements, substitutions, listener, loc, valid,
                 pendingReqs, current, result, diags, listenerCalls>>

\* firstType->hasError() || (secondType && secondType->hasError())
ErrorTypeSeen ==
  /\ InLoop /\ req # NoRequirement /\ carriesError
  /\ valid' = FALSE
  /\ idx' = idx + 1
  /\ Step("errorType")
  /\ UNCHANGED <<notArgs, requirements, substitutions, listener, loc,
                 pendingReqs,
                 current, result, diags, listenerCalls>>

\* variant: the listener is asked after the switch, so the conformance has
\* been looked up and its conditional requirements pushed
ListenerSkips_AfterSwitch ==
  /\ Substituted /\ listener
  /\ LET conditionalReqs ==
           IF req.kind = "Conformance"
             THEN conformsToProtocol(firstType, secondType.base).conditionalReqs
           ELSE <<>>
     IN pendingReqs' =
          IF conditionalReqs # <<>>
            THEN Append(pendingReqs,
                        RequirementSet(conditionalReqs,
                                       Append(current.Parents,
                                              [type |-> firstType,
                                               proto |-> secondType])))
          ELSE pendingReqs
  /\ idx' = idx + 1
  /\ Step("skipped")
  /\ UNCHANGED <<notArgs, requirements, substitutions, listener, loc, valid,
                 current, result, diags, listenerCalls>>

\* listener && !listener->shouldCheck(kind, firstType, secondType)
ListenerSkips ==
  /\ Substituted /\ listener
  /\ idx' = idx + 1
  /\ Step("skipped")
  /\ UNCHANGED <<notArgs, requirements, substitutions, listener, loc, valid,
                 pendingReqs, current, result, diags, listenerCalls>>

\* variant: the conformance is reported to the listener whether or not an
\* earlier requirement failed to substitute
ConformanceSatisfied_ReportsWhenInvalid ==
  /\ Substituted /\ req.kind = "Conformance" /\ ~requirementFailure
  /\ LET conformance == conformsToProtocol(firstType, secondType.base)
         conditionalReqs == conformance.conditionalReqs
         history == Append(current.Parents,
                           [type |-> firstType, proto |-> secondType])
     IN /\ listenerCalls' =
             IF listener /\ current.Parents = <<>>
               THEN Append(listenerCalls,
                           [call |-> "satisfiedConformance",
                            raw |-> rawReq, first |-> firstType,
                            second |-> secondType, parents |-> <<>>,
                            claimed |-> FALSE])
               ELSE listenerCalls
        /\ pendingReqs' =
             IF conditionalReqs # <<>>
               THEN Append(pendingReqs,
                           RequirementSet(conditionalReqs, history))
               ELSE pendingReqs
  /\ idx' = idx + 1
  /\ Step("satisfied")
  /\ UNCHANGED <<notArgs, requirements, substitutions, listener, loc, valid,
                 current, result, diags>>

\* variant: the new frame is pushed onto the chain of the set being
\* processed, which the pushed set then shares
ConformanceSatisfied_SharedChain ==
  /\ Substituted /\ req.kind = "Conformance" /\ ~requirementFailure
  /\ LET conformance == conformsToProtocol(firstType, secondType.base)
         conditionalReqs == conformance.conditionalReqs
         history == Append(current.Parents,
                           [type |-> firstType, proto |-> secondType])
     IN /\ listenerCalls' =
             IF listener /\ valid /\ current.Parents = <<>>
               THEN Append(listenerCalls,
                           [call |-> "satisfiedConformance",
                            raw |-> rawReq, first |-> firstType,
                            second |-> secondType, parents |-> <<>>,
                            claimed |-> FALSE])
               ELSE listenerCalls
        /\ pendingReqs' =
             IF conditionalReqs # <<>>
               THEN Append(pendingReqs,
                           RequirementSet(conditionalReqs, history))
               ELSE pendingReqs
        /\ current' =
             IF conditionalReqs # <<>>
               THEN [current EXCEPT !.Parents = history]
               ELSE current
  /\ idx' = idx + 1
  /\ Step("satisfied")
  /\ UNCHANGED <<notArgs, requirements, substitutions, listener, loc, valid,
                 result, diags>>

\* variant: the pushed set inherits the parent chain without the new frame
ConformanceSatisfied_NoFrame ==
  /\ Substituted /\ req.kind = "Conformance" /\ ~requirementFailure
  /\ LET conformance == conformsToProtocol(firstType, secondType.base)
         conditionalReqs == conformance.conditionalReqs
         history == current.Parents
     IN /\ listenerCalls' =
             IF listener /\ valid /\ current.Parents = <<>>
               THEN Append(listenerCalls,
                           [call |-> "satisfiedConformance",
                            raw |-> rawReq, first |-> firstType,
                            second |-> secondType, parents |-> <<>>,
                            claimed |-> FALSE])
               ELSE listenerCalls
        /\ pendingReqs' =
             IF conditionalReqs # <<>>
               THEN Append(pendingReqs,
                           RequirementSet(conditionalReqs, history))
               ELSE pendingReqs
  /\ idx' = idx + 1
  /\ Step("satisfied")
  /\ UNCHANGED <<notArgs, requirements, substitutions, listener, loc, valid,
                 current, result, diags>>

\* case Conformance, conformsToProtocol found a conformance
ConformanceSatisfied ==
  /\ Substituted /\ req.kind = "Conformance" /\ ~requirementFailure
  /\ LET conformance == conformsToProtocol(firstType, secondType.base)
         conditionalReqs == conformance.conditionalReqs
         history == Append(current.Parents,
                           [type |-> firstType, proto |-> secondType])
     IN /\ listenerCalls' =
             IF listener /\ valid /\ current.Parents = <<>>
               THEN Append(listenerCalls,
                           [call |-> "satisfiedConformance",
                            raw |-> rawReq, first |-> firstType,
                            second |-> secondType, parents |-> <<>>,
                            claimed |-> FALSE])
               ELSE listenerCalls
        /\ pendingReqs' =
             IF conditionalReqs # <<>>
               THEN Append(pendingReqs,
                           RequirementSet(conditionalReqs, history))
               ELSE pendingReqs
  /\ idx' = idx + 1
  /\ Step("satisfied")
  /\ UNCHANGED <<notArgs, requirements, substitutions, listener, loc, valid,
                 current,
                 result, diags>>

\* variant: a top-level conformance failure is treated like a failed
\* substitution and the loop goes on
TopLevelConformanceFails_Continues ==
  /\ Substituted /\ req.kind = "Conformance" /\ requirementFailure
  /\ current.Parents = <<>>
  /\ valid' = FALSE
  /\ idx' = idx + 1
  /\ Step("violated")
  /\ UNCHANGED <<notArgs, requirements, substitutions, listener, loc,
                 pendingReqs, current, result, diags, listenerCalls>>

\* variant: a top-level conformance failure falls through to the diagnosis
\* after the switch
TopLevelConformanceFails_Diagnosed ==
  /\ Substituted /\ req.kind = "Conformance" /\ requirementFailure
  /\ current.Parents = <<>>
  /\ diags' = IF loc THEN Append(diags, DiagnosticEvent) ELSE diags
  /\ result' = "Failure"
  /\ Step("violated")
  /\ UNCHANGED <<notArgs, requirements, substitutions, listener, loc, valid,
                 pendingReqs, current, idx, listenerCalls>>

\* "A failure at the top level is diagnosed elsewhere."
TopLevelConformanceFails ==
  /\ Substituted /\ req.kind = "Conformance" /\ requirementFailure
  /\ current.Parents = <<>>
  /\ result' = "Failure"
  /\ Step("violated")
  /\ UNCHANGED <<notArgs, requirements, substitutions, listener, loc, valid,
                 pendingReqs, current, idx, diags, listenerCalls>>

\* case Layout / Superclass / SameType and the check holds:
\* if (!requirementFailure) continue;
RequirementPasses ==
  /\ Substituted /\ req.kind # "Conformance" /\ ~requirementFailure
  /\ idx' = idx + 1
  /\ Step("satisfied")
  /\ UNCHANGED <<notArgs, requirements, substitutions, listener, loc, valid,
                 pendingReqs, current, result, diags, listenerCalls>>

\* a failure that reaches the code after the switch
ReachesDiagnosis ==
  /\ Substituted /\ requirementFailure
  /\ (req.kind = "Conformance" => current.Parents # <<>>)

\* listener->diagnoseUnsatisfiedRequirement(rawReq, firstType, secondType,
\* current.Parents) and the bool it returned
DiagnoseCall(claimed) ==
  [call |-> "diagnoseUnsatisfiedRequirement", raw |-> rawReq,
   first |-> firstType, second |-> secondType, parents |-> current.Parents,
   claimed |-> claimed]

\* variant: after the listener has diagnosed the failure the loop goes on
ListenerDiagnoses_Continues ==
  /\ ReachesDiagnosis /\ listener
  /\ listenerCalls' = Append(listenerCalls, DiagnoseCall(TRUE))
  /\ valid' = FALSE
  /\ idx' = idx + 1
  /\ Step("violated")
  /\ UNCHANGED <<notArgs, requirements, substitutions, listener, loc,
                 pendingReqs, current, result, diags>>

\* listener->diagnoseUnsatisfiedRequirement(...) returned true
ListenerDiagnoses ==
  /\ ReachesDiagnosis /\ listener
  /\ listenerCalls' = Append(listenerCalls, DiagnoseCall(TRUE))
  /\ result' = "Failure"
  /\ Step("violated")
  /\ UNCHANGED <<notArgs, requirements, substitutions, listener, loc, valid,
                 pendingReqs, current, idx, diags>>

\* variant: the failure is diagnosed whether or not loc is valid
RequirementFails_IgnoresLoc ==
  /\ ReachesDiagnosis
  /\ listenerCalls' = IF listener
                        THEN Append(listenerCalls, DiagnoseCall(FALSE))
                      ELSE listenerCalls
  /\ diags' = Append(diags, DiagnosticEvent)
  /\ result' = "Failure"
  /\ Step("violated")
  /\ UNCHANGED <<notArgs, requirements, substitutions, listener, loc, valid,
                 pendingReqs, current, idx>>

\* variant: a violation after a failed substitution is reported as a
\* substitution failure
RequirementFails_WhenValid ==
  /\ ReachesDiagnosis
  /\ listenerCalls' = IF listener
                        THEN Append(listenerCalls, DiagnoseCall(FALSE))
                      ELSE listenerCalls
  /\ diags' = IF loc THEN Append(diags, DiagnosticEvent) ELSE diags
  /\ result' = IF valid THEN "Failure" ELSE "SubstitutionFailure"
  /\ Step("violated")
  /\ UNCHANGED <<notArgs, requirements, substitutions, listener, loc, valid,
                 pendingReqs, current, idx>>

\* variant: the failure is diagnosed and the loop goes on to the next
\* requirement
RequirementFails_Continues ==
  /\ ReachesDiagnosis
  /\ listenerCalls' = IF listener
                        THEN Append(listenerCalls, DiagnoseCall(FALSE))
                      ELSE listenerCalls
  /\ diags' = IF loc THEN Append(diags, DiagnosticEvent) ELSE diags
  /\ valid' = FALSE
  /\ idx' = idx + 1
  /\ Step("violated")
  /\ UNCHANGED <<notArgs, requirements, substitutions, listener, loc,
                 pendingReqs, current, result>>

\* no listener, or it declined: diagnose if loc is valid, return Failure
RequirementFails ==
  /\ ReachesDiagnosis
  /\ listenerCalls' = IF listener
                        THEN Append(listenerCalls, DiagnoseCall(FALSE))
                      ELSE listenerCalls
  /\ diags' = IF loc THEN Append(diags, DiagnosticEvent) ELSE diags
  /\ result' = "Failure"
  /\ Step("violated")
  /\ UNCHANGED <<notArgs, requirements, substitutions, listener, loc, valid,
                 pendingReqs, current, idx>>

(***************************************************************************)
(* The calls of checkGenericArguments that are explored.                   *)
(***************************************************************************)
\* requirements of a signature <T, U>, before substitution
RawRequirements ==
  { Conformance(Ty("T", 0), "P"), Conformance(Ty("T", 0), "Q"),
    Conformance(Ty("U", 0), "P"), SameType(Ty("T", 0), Ty("U", 0)),
    Superclass(Ty("T", 0), Ty("Base", 0)), Layout(Ty("T", 0)) }

\* a signature's requirement list holds no requirement twice
RequirementLists ==
  { s \in UNION { [1..n -> RawRequirements] : n \in 0..MaxReqs } :
      \A i, j \in DOMAIN s : s[i] = s[j] => i = j }

\* what the substitution function may answer for T and for U
ArgsOfT ==
  { Ty(b, n) : b \in {"Int", "Str"}, n \in 0..MaxNesting }
    \cup { Ty("Derived", 0), Ty("X", 0), ErrorType, NullType }
ArgsOfU == { Ty("Int", 0), Ty("Str", 1), NullType }

Substitutions ==
  { s \in [GenericParams -> ArgsOfT] : s["U"] \in ArgsOfU }

(***************************************************************************)
(* Declarations, signatures and environments seen by                       *)
(* validateGenericFuncOrSubscriptSignature, validateGenericTypeSignature   *)
(* and checkGenericEnvironment.                                            *)
(***************************************************************************)
\* a GenericSignature object: where it comes from and, when a builder
\* computed it, which builder that was and what had been fed to it
Signature(o, b, ops) == [origin |-> o, builder |-> b, ops |-> ops]
NullSignature == Signature("null", 0, <<>>)

\* a GenericEnvironment object: its signature and the createGenericEnvironment
\* call that made it (0 for an environment that existed before the call)
Environment(s, n) == [signature |-> s, serial |-> n]
NullEnvironment == Environment(NullSignature, 0)

\* a TypeLoc: its TypeRepr ("none", "plain", "opaque") and its type ("null",
\* "preset", "dependent", "interface", "opaque", "error")
TypeLoc(r, t) == [repr |-> r, type |-> t]
NullTypeLoc == TypeLoc("none", "null")
\* TypeLoc::isNull, TypeLoc::wasValidated, TypeLoc::isError
isNull(tl) == tl.repr = "none" /\ tl.type = "null"
wasValidated(tl) == tl.type # "null"
isError(tl) == tl.type = "error"

\* a GenericParamList: the number of its parameters and of the requirements
\* of its where clause; NoParamList is a null GenericParamList*
GenericParamList(n, w) == [size |-> n, where |-> w]
NoParamList == GenericParamList(0, 0)

\* one call on a GenericSignatureBuilder
BuilderOp(o, l, i) == [op |-> o, list |-> l, index |-> i]
NoBuilder == [live |-> FALSE, ops |-> <<>>]

\* static_cast<unsigned>(-1) of getExtendedTypeGenericDepth: the depth of no
\* generic parameter (written as the integer that is cast)
NoDepth == -1

NoDecl ==
  [entry |-> "none", kind |-> "none", genericParams |-> NoParamList,
   depth |-> 0, contextGeneric |-> FALSE, storage |-> "none"]
NoEnvCall ==
  [genericParams |-> <<>>, depth |-> 0, parentSig |-> NullSignature,
   allowConcreteGenericParams |-> FALSE, ext |-> "none",
   trailingWhereClause |-> FALSE, redundantRequirement |-> FALSE,
   extendedDepth |-> NoDepth, mustInferRequirements |-> FALSE]

\* no call of the signature functions is under way
SigIdle ==
  /\ sdecl = NoDecl
  /\ spc = "idle"
  /\ genericEnvironment = NullEnvironment
  /\ sig = NullSignature
  /\ builder = NoBuilder
  /\ buildersCreated = <<>>
  /\ envsCreated = 0
  /\ resultTyLoc = NullTypeLoc
  /\ params = <<>>
  /\ envCall = NoEnvCall
  /\ envReturned = NullEnvironment
  /\ steps = <<>>

(***************************************************************************)
(* Generic parameters, signatures and types seen by                        *)
(* getOrCreateOpaqueResultType.                                            *)
(***************************************************************************)
\* GenericTypeParamType::get(depth, index, Context)
GenericTypeParam(d, i) == [depth |-> d, index |-> i]
NoGenericTypeParam == GenericTypeParam(NoDepth, NoDepth)

\* a generic signature by content: its generic parameters and requirements
GenericSignature(ps, rs) == [params |-> ps, requirements |-> rs]
NoGenericSignature == GenericSignature(<<>>, <<>>)

\* the types the function returns: the error type, the resolved constraint
\* type, or the opaque archetype of the n-th OpaqueTypeDecl
ResultType(t, n) == [type |-> t, decl |-> n]
OpaqueErrorType == ResultType("error", 0)
OpaqueTypeArchetypeType(n) == ResultType("opaqueArchetype", n)
MetatypeType(t) == [instance |-> t]

NoOpaqueTypeDecl ==
  [serial |-> 0, genericParams |-> FALSE,
   signature |-> NoGenericSignature, param |-> NoGenericTypeParam,
   environment |-> FALSE, interfaceType |-> MetatypeType(OpaqueErrorType)]

NoConstraint ==
  [kind |-> "none", superclass |-> FALSE, protocols |-> 0, layout |-> FALSE]
NoOriginatingDecl ==
  [inProtocol |-> FALSE, isProtocolRequirement |-> FALSE,
   genericParams |-> FALSE, outer |-> NoGenericSignature,
   unavailable |-> FALSE, constraint |-> NoConstraint]

\* the arguments and locals of a call of checkGenericArguments
Call(rs, ss, l, lc, v, p, c, i, r, t, lcs) ==
  [requirements |-> rs, substitutions |-> ss, listener |-> l, loc |-> lc,
   valid |-> v, pendingReqs |-> p, current |-> c, idx |-> i, result |-> r,
   trace |-> t, listenerCalls |-> lcs]

\* the state of a call after `pendingReqs.push_back({requirements, {}})`
NewCall(rs, ss, l, lc) ==
  Call(rs, ss, l, lc, TRUE, <<RequirementSet(rs, <<>>)>>,
       RequirementSet(<<>>, <<>>), 1, "none", <<>>, <<>>)

\* there is no second call
NoCall ==
  Call(<<>>, <<>>, FALSE, FALSE, TRUE, <<>>, RequirementSet(<<>>, <<>>), 1,
       "absent", <<>>, <<>>)

CallsIdle ==
  /\ suspended = NoCall
  /\ running = 1
  /\ interleaved = FALSE

\* no builder is being fed
BuilderIdle ==
  /\ gsbRequirements = <<>>
  /\ gsbAdded = {}
  /\ gsbCalls = <<>>
  /\ gsbSignature = NoGenericSignature

\* the declarations whose generic environment is requested: a function, a
\* subscript and two nominal types
Declarations == {"f", "s", "S", "E"}
isTypeDecl(d) == d \in {"S", "E"}

\* no generic environment has been requested
DemandIdle ==
  /\ envSets = [d \in Declarations |-> 0]
  /\ inProgress = <<>>
  /\ requests = <<>>
  /\ cycles = <<>>
  /\ assertFailed = FALSE

\* no call of getOrCreateOpaqueResultType has been made
OpaqueIdle ==
  /\ odecl = NoOriginatingDecl
  /\ opc = "idle"
  /\ opaqueResultTypeDecl = NoOpaqueTypeDecl
  /\ obuilder = <<>>
  /\ returnTypeParam = NoGenericTypeParam
  /\ interfaceSignature = NoGenericSignature
  /\ ocalls = <<>>
  /\ odiags = <<>>
  /\ ocreated = [builders |-> 0, params |-> 0, decls |-> 0]

\* no call of checkReferencedGenericParams is under way
RefIdle ==
  /\ rdecl = [isAccessor |-> FALSE, hasGenericParams |-> FALSE,
              formalTypes |-> {}, requirements |-> <<>>]
  /\ declInterfaceType = "function"
  /\ declInvalid = FALSE
  /\ referencedGenericParams = {}
  /\ rreqs = <<>>
  /\ rpc = "idle"
  /\ rparam = 0
  /\ rreq = 0
  /\ rfound = FALSE
  /\ rpasses = 0
  /\ rdiags = <<>>
  /\ rvisits = <<>>

\* the state after `pendingReqs.push_back({requirements, {}})`
InitArgs ==
  /\ requirements \in RequirementLists
  /\ substitutions \in Substitutions
  /\ listener \in BOOLEAN
  /\ loc \in BOOLEAN
  /\ valid = TRUE
  /\ pendingReqs = <<RequirementSet(requirements, <<>>)>>
  /\ current = RequirementSet(<<>>, <<>>)
  /\ idx = 1
  /\ result = "none"
  /\ diags = <<>>
  /\ trace = <<>>
  /\ listenerCalls = <<>>
  /\ RefIdle
  /\ SigIdle
  /\ OpaqueIdle
  /\ DemandIdle
  /\ CallsIdle
  /\ BuilderIdle

\* TypeChecker::checkGenericArguments, one loop iteration at a time
NextArgs ==
  \/ PopPending
  \/ ReturnResult
  \/ SubstFails
  \/ ErrorTypeSeen
  \/ ListenerSkips
  \/ ConformanceSatisfied
  \/ TopLevelConformanceFails
  \/ RequirementPasses
  \/ ListenerDiagnoses
  \/ RequirementFails

SpecArgs == InitArgs /\ [][NextArgs]_vars

\* the calls whose requirements are conformance and layout requirements: the
\* ones that fill the work-list with conditional requirement sets
WorkListRequirementLists ==
  { s \in RequirementLists :
      \A i \in DOMAIN s : s[i].kind \in {"Conformance", "Layout"} }

InitWorkList == InitArgs /\ requirements \in WorkListRequirementLists

\* checkGenericArguments on those calls
SpecWorkList == InitWorkList /\ [][NextArgs]_vars

(***************************************************************************)
(* Two calls of checkGenericArguments.  requirements, substitutions,       *)
(* listener, loc, valid, pendingReqs, current and idx are arguments and    *)
(* locals of a call (812-838): each call has its own, and the variables of *)
(* those names hold the ones of the call that is running.                  *)
(***************************************************************************)
\* longest requirement list of the two calls
MaxCallReqs == 2

CallRequirementLists ==
  { s \in UNION { [1..n ->
                    { Conformance(Ty("T", 0), "P"), Conformance(Ty("T", 0), "Q"),
                      Layout(Ty("T", 0)) }] : n \in 0..MaxCallReqs } :
      \A i, j \in DOMAIN s : s[i] = s[j] => i = j }

CallSubstitutions ==
  { s \in [GenericParams -> { Ty("Int", 0), Ty("Int", 1), Ty("Derived", 0),
                              ErrorType, NullType }] :
      s["U"] = Ty("Int", 0) }

\* the call that is running, as a record
RunningCall ==
  Call(requirements, substitutions, listener, loc, valid, pendingReqs,
       current, idx, result, trace, listenerCalls)

\* the call has popped its seed set and has not returned
InItsLoop(c) == c.result = "none" /\ c.trace # <<>>

\* variant: the valid flag is shared by the two calls
SwitchCall_SharedValid ==
  /\ suspended.result = "none"
  /\ requirements' = suspended.requirements
  /\ substitutions' = suspended.substitutions
  /\ listener' = suspended.listener
  /\ loc' = suspended.loc
  /\ pendingReqs' = suspended.pendingReqs
  /\ current' = suspended.current
  /\ idx' = suspended.idx
  /\ result' = suspended.result
  /\ trace' = suspended.trace
  /\ listenerCalls' = suspended.listenerCalls
  /\ suspended' = RunningCall
  /\ running' = 3 - running
  /\ interleaved' = (interleaved \/
                       (InItsLoop(suspended) /\ InItsLoop(RunningCall)))
  /\ UNCHANGED <<valid, diags, refVars, sigVars, opaqueVars, demandVars,
                 builderVars>>

\* the other call runs on: its arguments and locals become the current ones,
\* those of the running call are kept for later
SwitchCall ==
  /\ suspended.result = "none"
  /\ requirements' = suspended.requirements
  /\ substitutions' = suspended.substitutions
  /\ listener' = suspended.listener
  /\ loc' = suspended.loc
  /\ valid' = suspended.valid
  /\ pendingReqs' = suspended.pendingReqs
  /\ current' = suspended.current
  /\ idx' = suspended.idx
  /\ result' = suspended.result
  /\ trace' = suspended.trace
  /\ listenerCalls' = suspended.listenerCalls
  /\ suspended' = RunningCall
  /\ running' = 3 - running
  /\ interleaved' = (interleaved \/
                       (InItsLoop(suspended) /\ InItsLoop(RunningCall)))
  /\ UNCHANGED <<diags, refVars, sigVars, opaqueVars, demandVars,
                 builderVars>>

InitTwoCalls ==
  /\ requirements \in CallRequirementLists
  /\ substitutions \in CallSubstitutions
  /\ listener = FALSE
  /\ loc \in BOOLEAN
  /\ valid = TRUE
  /\ pendingReqs = <<RequirementSet(requirements, <<>>)>>
  /\ current = RequirementSet(<<>>, <<>>)
  /\ idx = 1
  /\ result = "none"
  /\ diags = <<>>
  /\ trace = <<>>
  /\ listenerCalls = <<>>
  /\ suspended \in { NewCall(rs, ss, FALSE, loc) :
                       rs \in CallRequirementLists, ss \in CallSubstitutions }
  /\ running = 1
  /\ interleaved = FALSE
  /\ RefIdle
  /\ SigIdle
  /\ OpaqueIdle
  /\ DemandIdle
  /\ BuilderIdle

\* the steps of the running call, and the switch to the other call
NextTwoCalls ==
  \/ PopPending
  \/ ReturnResult
  \/ SubstFails
  \/ ErrorTypeSeen
  \/ ConformanceSatisfied
  \/ TopLevelConformanceFails
  \/ RequirementPasses
  \/ RequirementFails
  \/ SwitchCall

SpecTwoCalls == InitTwoCalls /\ [][NextTwoCalls]_vars

(***************************************************************************)
(* checkReferencedGenericParams.  An interface type is a record            *)
(* [base, members, boxes]: a generic parameter or nominal name, the chain  *)
(* of member names of a dependent member type (T.M.N), and the number of   *)
(* bound generic types wrapped around it (Array<T.M>).                     *)
(***************************************************************************)
GTy(b, ms, n) == [base |-> b, members |-> ms, boxes |-> n]
Param(p) == GTy(p, <<>>, 0)

\* ty->isTypeParameter(): a generic parameter or a dependent member type
isTypeParameter(t) == hasTypeParameter(t) /\ t.boxes = 0
\* t->is<GenericTypeParamType>()
isGenericTypeParamType(t) == isTypeParameter(t) /\ t.members = <<>>
\* t->getRootGenericParam()
getRootGenericParam(t) == Param(t.base)

\* Type::walk with ReferencedGenericTypeWalker::walkToTypePre: skip a type
\* without type parameters, insert a type parameter without looking at its
\* children, and continue into the children of any other type
RECURSIVE walk(_)
walk(t) ==
  IF ~hasTypeParameter(t) THEN {}
  ELSE IF isTypeParameter(t) THEN {t}
  ELSE walk([t EXCEPT !.boxes = @ - 1])

\* genericParamsUsedByRequirementTypes of reqTypesVisitor
genericParamsUsedByRequirementTypes(r) ==
  (IF hasTypeParameter(r.first) THEN walk(r.first) ELSE {})
    \cup (IF r.kind \in {"Superclass", "SameType"}
               /\ hasTypeParameter(r.second)
            THEN walk(r.second) ELSE {})

\* variant: the base of a dependent member type is marked as well
reqTypesVisitor_MarksRoots(r, S) ==
  LET used == genericParamsUsedByRequirementTypes(r)
  IN IF \E t \in used : getRootGenericParam(t) \in S
       THEN S \cup { getRootGenericParam(t) : t \in used }
       ELSE S

\* reqTypesVisitor: the referenced set after visiting r with the set S
reqTypesVisitor(r, S) ==
  LET used == genericParamsUsedByRequirementTypes(r)
  IN IF \E t \in used : getRootGenericParam(t) \in S
       THEN S \cup { t \in used : isGenericTypeParamType(t) }
       ELSE S

\* genericSig->getGenericParams()[rparam]
genParam == SignatureParams[rparam]

\* genericParams->getParams().front()->getDepth()
fnGenericParamsDepth == 1

InParamLoop == rpc = "params" /\ rparam <= Len(SignatureParams)
IsReferenced == Param(genParam) \in referencedGenericParams

\* variant: an accessor is checked like any other declaration
ReturnForAccessor_Checks ==
  /\ rpc = "entry" /\ rdecl.isAccessor
  /\ referencedGenericParams' = UNION { walk(t) : t \in rdecl.formalTypes }
  /\ rparam' = 1
  /\ rpc' = "params"
  /\ UNCHANGED <<notRef, rdecl, declInterfaceType, declInvalid, rreqs, rreq,
                 rfound, rpasses, rdiags, rvisits>>

\* return for an accessor
ReturnForAccessor ==
  /\ rpc = "entry" /\ rdecl.isAccessor
  /\ rpc' = "done"
  /\ UNCHANGED <<notRef, rdecl, declInterfaceType, declInvalid,
                 referencedGenericParams, rreqs, rparam, rreq, rfound,
                 rpasses, rdiags, rvisits>>

\* return if (!genericParams)
ReturnWithoutGenericParams ==
  /\ rpc = "entry" /\ ~rdecl.isAccessor /\ ~rdecl.hasGenericParams
  /\ rpc' = "done"
  /\ UNCHANGED <<notRef, rdecl, declInterfaceType, declInvalid,
                 referencedGenericParams, rreqs, rparam, rreq, rfound,
                 rpasses, rdiags, rvisits>>

\* paramsAndResultWalker over the parameter types and the result type
WalkParamsAndResult ==
  /\ rpc = "entry" /\ ~rdecl.isAccessor /\ rdecl.hasGenericParams
  /\ referencedGenericParams' = UNION { walk(t) : t \in rdecl.formalTypes }
  /\ rparam' = 1
  /\ rpc' = "params"
  /\ UNCHANGED <<notRef, rdecl, declInterfaceType, declInvalid, rreqs, rreq,
                 rfound, rpasses, rdiags, rvisits>>

\* variant: a parameter of an outer depth is checked like an own parameter
SkipOuterParam_Diagnoses ==
  /\ InParamLoop /\ getDepth(genParam) # fnGenericParamsDepth
  /\ rparam' = rparam + 1
  /\ IF IsReferenced
       THEN UNCHANGED <<rdiags, declInterfaceType, declInvalid>>
       ELSE /\ rdiags' = Append(rdiags, genParam)
            /\ declInterfaceType' = "error"
            /\ declInvalid' = TRUE
  /\ UNCHANGED <<notRef, rdecl, referencedGenericParams, rreqs, rpc, rreq,
                 rfound, rpasses, rvisits>>

\* if (paramDecl->getDepth() != fnGenericParamsDepth) continue;
SkipOuterParam ==
  /\ InParamLoop /\ getDepth(genParam) # fnGenericParamsDepth
  /\ rparam' = rparam + 1
  /\ UNCHANGED <<notRef, rdecl, declInterfaceType, declInvalid,
                 referencedGenericParams, rreqs, rpc, rreq, rfound, rpasses,
                 rdiags, rvisits>>

\* the parameter is among referencedGenericParams
ParamReferenced ==
  /\ InParamLoop /\ getDepth(genParam) = fnGenericParamsDepth
  /\ IsReferenced
  /\ rparam' = rparam + 1
  /\ UNCHANGED <<notRef, rdecl, declInterfaceType, declInvalid,
                 referencedGenericParams, rreqs, rpc, rreq, rfound, rpasses,
                 rdiags, rvisits>>

\* if (requirements.empty()) FindReferencedGenericParamsInRequirements():
\* requirements = genericSig->getRequirements(), and the first pass begins
StartSearch ==
  /\ InParamLoop /\ getDepth(genParam) = fnGenericParamsDepth
  /\ ~IsReferenced /\ rreqs = <<>>
  /\ rreqs' = rdecl.requirements
  /\ rreq' = 1
  /\ rfound' = FALSE
  /\ rpasses' = 0
  /\ rpc' = "reqs"
  /\ UNCHANGED <<notRef, rdecl, declInterfaceType, declInvalid,
                 referencedGenericParams, rparam, rdiags, rvisits>>

\* variant: reqTypesVisitor answers true whenever the requirement mentions a
\* referenced parameter, also when it inserts nothing new
VisitRequirement_FoundOnMatch ==
  /\ rpc = "reqs" /\ rreq <= Len(rreqs)
  /\ LET after == reqTypesVisitor(rreqs[rreq], referencedGenericParams)
         used  == genericParamsUsedByRequirementTypes(rreqs[rreq])
     IN /\ referencedGenericParams' = after
        /\ rfound' = (rfound \/ \E t \in used :
                         getRootGenericParam(t) \in referencedGenericParams)
  /\ rvisits' = Append(rvisits, rreqs[rreq])
  /\ rreq' = rreq + 1
  /\ UNCHANGED <<notRef, rdecl, declInterfaceType, declInvalid, rreqs, rpc,
                 rparam, rpasses, rdiags>>

\* for (auto req : requirements) if (reqTypesVisitor(req)) found = true;
VisitRequirement ==
  /\ rpc = "reqs" /\ rreq <= Len(rreqs)
  /\ LET after == reqTypesVisitor(rreqs[rreq], referencedGenericParams)
     IN /\ referencedGenericParams' = after
        /\ rfound' = (rfound \/ after # referencedGenericParams)
  /\ rvisits' = Append(rvisits, rreqs[rreq])
  /\ rreq' = rreq + 1
  /\ UNCHANGED <<notRef, rdecl, declInterfaceType, declInvalid, rreqs, rpc,
                 rparam, rpasses, rdiags>>

\* variant: the search makes one pass only
NextPass_Stops ==
  /\ rpc = "reqs" /\ rreq > Len(rreqs) /\ rfound
  /\ rpasses' = rpasses + 1
  /\ rpc' = "after"
  /\ UNCHANGED <<notRef, rdecl, declInterfaceType, declInvalid,
                 referencedGenericParams, rreqs, rparam, rreq, rfound,
                 rdiags, rvisits>>

\* the pass found a new parameter: while (true) goes round again
NextPass ==
  /\ rpc = "reqs" /\ rreq > Len(rreqs) /\ rfound
  /\ rpasses' = rpasses + 1
  /\ rreq' = 1
  /\ rfound' = FALSE
  /\ UNCHANGED <<notRef, rdecl, declInterfaceType, declInvalid,
                 referencedGenericParams, rreqs, rpc, rparam, rdiags,
                 rvisits>>

\* if (!foundNewReferencedGenericParam) break;
FixedPoint ==
  /\ rpc = "reqs" /\ rreq > Len(rreqs) /\ ~rfound
  /\ rpasses' = rpasses + 1
  /\ rpc' = "after"
  /\ UNCHANGED <<notRef, rdecl, declInterfaceType, declInvalid,
                 referencedGenericParams, rreqs, rparam, rreq, rfound,
                 rdiags, rvisits>>

\* referenced after analyzing the requirements: continue
FoundBySearch ==
  /\ rpc = "after" /\ IsReferenced
  /\ rparam' = rparam + 1
  /\ rpc' = "params"
  /\ UNCHANGED <<notRef, rdecl, declInterfaceType, declInvalid,
                 referencedGenericParams, rreqs, rreq, rfound, rpasses,
                 rdiags, rvisits>>

\* diagnose(unreferenced_generic_parameter); setInterfaceType(ErrorType);
\* setInvalid()
DiagnoseUnreferenced ==
  /\ \/ rpc = "after" /\ ~IsReferenced
     \/ /\ InParamLoop /\ getDepth(genParam) = fnGenericParamsDepth
        /\ ~IsReferenced /\ rreqs # <<>>
  /\ rdiags' = Append(rdiags, genParam)
  /\ declInterfaceType' = "error"
  /\ declInvalid' = TRUE
  /\ rparam' = rparam + 1
  /\ rpc' = "params"
  /\ UNCHANGED <<notRef, rdecl, referencedGenericParams, rreqs, rreq,
                 rfound, rpasses, rvisits>>

\* the loop over the signature's generic parameters is over
FinishParams ==
  /\ rpc = "params" /\ rparam > Len(SignatureParams)
  /\ rpc' = "done"
  /\ UNCHANGED <<notRef, rdecl, declInterfaceType, declInvalid,
                 referencedGenericParams, rreqs, rparam, rreq, rfound,
                 rpasses, rdiags, rvisits>>

(***************************************************************************)
(* The declarations handed to checkReferencedGenericParams:                *)
(*   func f<T1, T2, T3, U>(...) -> ...  inside a context generic over O.   *)
(***************************************************************************)
\* longest requirement list of the declaration's generic signature
MaxSigReqs == 3

\* types that may occur among the parameter types and the result type
FormalTypes ==
  { Param("U"), GTy("T3", <<>>, 1), GTy("T1", <<"M">>, 0), Param("O") }

\* requirements that may occur in the generic signature
SignatureRequirements ==
  { SameType(Param("T1"), GTy("T2", <<"M">>, 0)),
    SameType(Param("T2"), GTy("T3", <<"N">>, 0)),
    SameType(Param("T3"), Param("U")),
    SameType(GTy("T1", <<"M">>, 0), Param("U")),
    SameType(Param("T3"), GTy("O", <<>>, 1)),
    SameType(Param("T1"), Param("O")),
    Superclass(Param("T2"), GTy("T1", <<>>, 1)),
    Conformance(GTy("T2", <<"M">>, 0), "P"),
    Layout(Param("T1")) }

SignatureRequirementLists ==
  { s \in UNION { [1..n -> SignatureRequirements] : n \in 0..MaxSigReqs } :
      \A i, j \in DOMAIN s : s[i] = s[j] => i = j }

ArgsIdle ==
  /\ requirements = <<>>
  /\ substitutions = [p \in GenericParams |-> NullType]
  /\ listener = FALSE
  /\ loc = FALSE
  /\ valid = TRUE
  /\ pendingReqs = <<>>
  /\ current = RequirementSet(<<>>, <<>>)
  /\ idx = 1
  /\ result = "none"
  /\ diags = <<>>
  /\ trace = <<>>
  /\ listenerCalls = <<>>

\* the state on entry to checkReferencedGenericParams
InitRef ==
  /\ rdecl \in [isAccessor : BOOLEAN, hasGenericParams : BOOLEAN,
                formalTypes : SUBSET FormalTypes,
                requirements : SignatureRequirementLists]
  /\ declInterfaceType = "function"
  /\ declInvalid = FALSE
  /\ referencedGenericParams = {}
  /\ rreqs = <<>>
  /\ rpc = "entry"
  /\ rparam = 0
  /\ rreq = 0
  /\ rfound = FALSE
  /\ rpasses = 0
  /\ rdiags = <<>>
  /\ rvisits = <<>>
  /\ ArgsIdle
  /\ SigIdle
  /\ OpaqueIdle
  /\ DemandIdle
  /\ CallsIdle
  /\ BuilderIdle

\* TypeChecker::checkReferencedGenericParams, one loop iteration at a time
NextRef ==
  \/ ReturnForAccessor
  \/ ReturnWithoutGenericParams
  \/ WalkParamsAndResult
  \/ SkipOuterParam
  \/ ParamReferenced
  \/ StartSearch
  \/ VisitRequirement
  \/ NextPass
  \/ FixedPoint
  \/ FoundBySearch
  \/ DiagnoseUnreferenced
  \/ FinishParams

SpecRef == InitRef /\ [][NextRef]_vars

(***************************************************************************)
(* validateGenericFuncOrSubscriptSignature, validateGenericTypeSignature   *)
(* and checkGenericEnvironment.                                            *)
(***************************************************************************)
\* decl->getDeclContext()->getGenericSignatureOfContext()
ContextSignature ==
  IF sdecl.contextGeneric THEN Signature("context", 0, <<>>)
                          ELSE NullSignature
\* decl->getDeclContext()->getGenericEnvironmentOfContext()
ContextEnvironment ==
  IF sdecl.contextGeneric THEN Environment(ContextSignature, 0)
                          ELSE NullEnvironment
\* genCtx->getGenericContextDepth(): the depth of the declaration's own list
getGenericContextDepth == IF sdecl.contextGeneric THEN 1 ELSE 0

\* accessor->getStorage()->getGenericEnvironment(): the storage was validated
\* before its accessors, a subscript by validateGenericFuncOrSubscriptSignature
\* itself: with a list of its own it got the environment of its own signature,
\* without one the environment of the context
StorageSignature == Signature("storage", 0, <<>>)
getStorageEnvironment ==
  IF sdecl.storage = "genericSubscript"
    THEN Environment(StorageSignature, 0)
    ELSE ContextEnvironment

\* variant: each parameter's declared requirements are added right after
\* the parameter itself
checkGenericParamList_RequirementsPerParameter(ops, list, d, parentSig) ==
  ops \o <<BuilderOp("addGenericSignature", 0,
                     IF parentSig = NullSignature THEN 0 ELSE 1)>>
      \o [k \in 1..(2 * list.size) |->
            IF k % 2 = 1
              THEN BuilderOp("addGenericParameter", d, (k + 1) \div 2)
              ELSE BuilderOp("addGenericParameterRequirements", d, k \div 2)]
      \o [i \in 1..list.where |-> BuilderOp("addRequirement", d, i)]

\* checkGenericParamList: the calls it makes on the builder for the list
\* `list` of depth d, after the calls `ops` made before
checkGenericParamList(ops, list, d, parentSig) ==
  ops \o <<BuilderOp("addGenericSignature", 0,
                     IF parentSig = NullSignature THEN 0 ELSE 1)>>
      \o [i \in 1..list.size |-> BuilderOp("addGenericParameter", d, i)]
      \o [i \in 1..list.size |->
            BuilderOp("addGenericParameterRequirements", d, i)]
      \o [i \in 1..list.where |-> BuilderOp("addRequirement", d, i)]

\* visitOuterToInner with the visitor of checkGenericEnvironment: lists is
\* genericParams followed by the chain of its getOuterParameters()
RECURSIVE visitOuterToInner(_, _, _)
visitOuterToInner(ops, lists, d) ==
  LET outer == IF Len(lists) > 1
                 THEN visitOuterToInner(ops, Tail(lists), d - 1)
                 ELSE ops
  IN checkGenericParamList(outer, lists[1], d, NullSignature)

\* TypeChecker::validateType: a location that was validated is left as it is;
\* otherwise it gets what the resolution produced
validateType(tl, resolved) ==
  IF wasValidated(tl) THEN tl ELSE [tl EXCEPT !.type = resolved]

\* variant: the error type is cleared as well
revertDependentTypeLoc_ClearsError(tl) ==
  IF tl.repr = "none" THEN tl
  ELSE [tl EXCEPT !.type = "null"]

\* revertDependentTypeLoc
revertDependentTypeLoc(tl) ==
  IF tl.repr = "none" THEN tl
  ELSE IF wasValidated(tl) /\ isError(tl) THEN tl
  ELSE [tl EXCEPT !.type = "null"]

Did(names) == steps' = steps \o names

InFuncOrSubscript == sdecl.entry = "validateGenericFuncOrSubscriptSignature"
InType == sdecl.entry = "validateGenericTypeSignature"
hasGenericParams == sdecl.genericParams # NoParamList

\* if (gpList) gpList->setDepth(genCtx->getGenericContextDepth());
SetDepth ==
  /\ InFuncOrSubscript /\ spc = "entry" /\ hasGenericParams
  /\ sdecl' = [sdecl EXCEPT !.depth = getGenericContextDepth]
  /\ Did(<<"setDepth">>)
  /\ spc' = "configured"
  /\ UNCHANGED <<notSig, genericEnvironment, sig, builder, buildersCreated,
                 envsCreated, resultTyLoc, params, envCall, envReturned>>

\* variant: a declaration without a list gets a new environment made from
\* the signature of its context
InheritEnvironment_Fresh ==
  /\ InFuncOrSubscript /\ spc = "entry" /\ ~hasGenericParams
  /\ envsCreated' = envsCreated + 1
  /\ genericEnvironment' = Environment(ContextSignature, envsCreated + 1)
  /\ Did(<<"setGenericEnvironment">>)
  /\ spc' = "configured"
  /\ UNCHANGED <<notSig, sdecl, sig, builder, buildersCreated, resultTyLoc,
                 params, envCall, envReturned>>

\* else genCtx->setGenericEnvironment(
\*        decl->getDeclContext()->getGenericEnvironmentOfContext());
InheritEnvironment ==
  /\ InFuncOrSubscript /\ spc = "entry" /\ ~hasGenericParams
  /\ genericEnvironment' = ContextEnvironment
  /\ Did(<<"setGenericEnvironment">>)
  /\ spc' = "configured"
  /\ UNCHANGED <<notSig, sdecl, sig, builder, buildersCreated, envsCreated,
                 resultTyLoc, params, envCall, envReturned>>

\* variant: the accessor keeps what the first statement gave it
AccessorReturns_KeepsEnvironment ==
  /\ InFuncOrSubscript /\ spc = "configured" /\ sdecl.kind = "accessor"
  /\ Did(<<"computeType">>)
  /\ spc' = "done"
  /\ UNCHANGED <<notSig, sdecl, genericEnvironment, sig, builder,
                 buildersCreated, envsCreated, resultTyLoc, params, envCall,
                 envReturned>>

\* if (auto accessor = dyn_cast<AccessorDecl>(decl)) { ... return; }
AccessorReturns ==
  /\ InFuncOrSubscript /\ spc = "configured" /\ sdecl.kind = "accessor"
  /\ IF hasGenericParams
          /\ sdecl.storage \in {"subscript", "genericSubscript"}
       THEN /\ genericEnvironment' = getStorageEnvironment
            /\ Did(<<"setGenericEnvironment", "computeType">>)
       ELSE /\ UNCHANGED genericEnvironment
            /\ Did(<<"computeType">>)
  /\ spc' = "done"
  /\ UNCHANGED <<notSig, sdecl, sig, builder, buildersCreated, envsCreated,
                 resultTyLoc, params, envCall, envReturned>>

\* sig = the signature of the context; without a list of its own the
\* declaration goes on to the interface pass with it
UseContextSignature ==
  /\ InFuncOrSubscript /\ spc = "configured" /\ sdecl.kind # "accessor"
  /\ ~hasGenericParams
  /\ sig' = ContextSignature
  /\ spc' = "interface"
  /\ UNCHANGED <<notSig, sdecl, genericEnvironment, builder, buildersCreated,
                 envsCreated, resultTyLoc, params, envCall, envReturned,
                 steps>>

\* GenericSignatureBuilder builder(Context); forStructural(genCtx);
\* checkGenericParamList(*this, &builder, gpList, <context signature>, ...)
CheckGenericParams ==
  /\ InFuncOrSubscript /\ spc = "configured" /\ sdecl.kind # "accessor"
  /\ hasGenericParams
  /\ sig' = ContextSignature
  /\ buildersCreated' = Append(buildersCreated, "declaration")
  /\ builder' = [live |-> TRUE,
                 ops |-> checkGenericParamList(<<>>, sdecl.genericParams,
                                               sdecl.depth, ContextSignature)]
  /\ Did(<<"GenericSignatureBuilder", "forStructural",
           "checkGenericParamList">>)
  /\ spc' = "structural"
  /\ UNCHANGED <<notSig, sdecl, genericEnvironment, envsCreated, resultTyLoc,
                 params, envCall, envReturned>>

\* variant: the parameter list is resolved in interface mode at once
CheckParamsStructural_Interface ==
  /\ spc = "structural"
  /\ \E outcome \in [DOMAIN params -> {"interface", "error"}] :
       params' = [i \in DOMAIN params |-> validateType(params[i], outcome[i])]
  /\ Did(<<"typeCheckParameterList:interface">>)
  /\ spc' = "paramsChecked"
  /\ UNCHANGED <<notSig, sdecl, genericEnvironment, sig, builder,
                 buildersCreated, envsCreated, resultTyLoc, envCall,
                 envReturned>>

\* typeCheckParameterList(params, resolution, ...) with the structural
\* resolution: every parameter's type location is validated
CheckParamsStructural ==
  /\ spc = "structural"
  /\ \E outcome \in [DOMAIN params -> {"dependent", "error"}] :
       params' = [i \in DOMAIN params |-> validateType(params[i], outcome[i])]
  /\ Did(<<"typeCheckParameterList:structural">>)
  /\ spc' = "paramsChecked"
  /\ UNCHANGED <<notSig, sdecl, genericEnvironment, sig, builder,
                 buildersCreated, envsCreated, resultTyLoc, envCall,
                 envReturned>>

\* builder.inferRequirements(*genCtx->getParentModule(), params);
InferFromParams ==
  /\ spc = "paramsChecked"
  /\ builder' = [builder EXCEPT
                   !.ops = Append(@, BuilderOp("inferRequirements", 0, 1))]
  /\ Did(<<"inferRequirements:params">>)
  /\ spc' = "paramsInferred"
  /\ UNCHANGED <<notSig, sdecl, genericEnvironment, sig, buildersCreated,
                 envsCreated, resultTyLoc, params, envCall, envReturned>>

\* validateType(resultTyLoc, resolution, FunctionResult) unless the location
\* is null or its representation is an OpaqueReturnTypeRepr
CheckResultStructural ==
  /\ spc = "paramsInferred"
  /\ IF ~isNull(resultTyLoc) /\ resultTyLoc.repr # "opaque"
       THEN /\ \E resolved \in {"dependent", "error"} :
                 resultTyLoc' = validateType(resultTyLoc, resolved)
            /\ Did(<<"validateType:structural">>)
       ELSE UNCHANGED <<resultTyLoc, steps>>
  /\ spc' = "resultChecked"
  /\ UNCHANGED <<notSig, sdecl, genericEnvironment, sig, builder,
                 buildersCreated, envsCreated, params, envCall, envReturned>>

\* if (resultTyLoc.getTypeRepr()) builder.inferRequirements(..., source);
InferFromResult ==
  /\ spc = "resultChecked"
  /\ IF resultTyLoc.repr # "none"
       THEN /\ builder' =
                 [builder EXCEPT
                    !.ops = Append(@, BuilderOp("inferRequirements", 0, 2))]
            /\ Did(<<"inferRequirements:result">>)
       ELSE UNCHANGED <<builder, steps>>
  /\ spc' = "resultInferred"
  /\ UNCHANGED <<notSig, sdecl, genericEnvironment, sig, buildersCreated,
                 envsCreated, resultTyLoc, params, envCall, envReturned>>

\* sig = std::move(builder).computeGenericSignature(decl->getLoc());
ComputeSignature ==
  /\ spc = "resultInferred"
  /\ sig' = Signature("built", Len(buildersCreated), builder.ops)
  /\ builder' = [builder EXCEPT !.live = FALSE]
  /\ Did(<<"computeGenericSignature">>)
  /\ spc' = "finalized"
  /\ UNCHANGED <<notSig, sdecl, genericEnvironment, buildersCreated,
                 envsCreated, resultTyLoc, params, envCall, envReturned>>

\* revertDependentTypeLoc(resultTyLoc); and the same for every parameter
RevertTypeLocs ==
  /\ spc = "finalized"
  /\ resultTyLoc' = revertDependentTypeLoc(resultTyLoc)
  /\ params' = [i \in DOMAIN params |-> revertDependentTypeLoc(params[i])]
  /\ Did(<<"revertDependentTypeLoc:result">>
           \o [i \in DOMAIN params |-> "revertDependentTypeLoc:param"])
  /\ spc' = "reverted"
  /\ UNCHANGED <<notSig, sdecl, genericEnvironment, sig, builder,
                 buildersCreated, envsCreated, envCall, envReturned>>

\* genCtx->setGenericEnvironment(sig->createGenericEnvironment());
CreateEnvironment ==
  /\ spc = "reverted"
  /\ envsCreated' = envsCreated + 1
  /\ genericEnvironment' = Environment(sig, envsCreated + 1)
  /\ Did(<<"createGenericEnvironment", "setGenericEnvironment">>)
  /\ spc' = "interface"
  /\ UNCHANGED <<notSig, sdecl, sig, builder, buildersCreated, resultTyLoc,
                 params, envCall, envReturned>>

\* resolution = forInterface(genCtx, sig); typeCheckParameterList(params, ...)
CheckParamsInterface ==
  /\ spc = "interface"
  /\ \E outcome \in [DOMAIN params -> {"interface", "error"}] :
       params' = [i \in DOMAIN params |-> validateType(params[i], outcome[i])]
  /\ Did(<<"forInterface", "typeCheckParameterList:interface">>)
  /\ spc' = "paramsResolved"
  /\ UNCHANGED <<notSig, sdecl, genericEnvironment, sig, builder,
                 buildersCreated, envsCreated, resultTyLoc, envCall,
                 envReturned>>

\* what a call of getOrCreateOpaqueResultType can give back: the error type,
\* the type of an opaque type declaration recorded before, the resolved
\* constraint type, or the type of a declaration it creates with a signature
\* builder of its own
OpaqueResults ==
  { [type |-> "error", builds |-> FALSE],
    [type |-> "opaque", builds |-> FALSE],
    [type |-> "interface", builds |-> FALSE],
    [type |-> "opaque", builds |-> TRUE] }

\* if (!resultTyLoc.isNull()): an opaque result goes to
\* getOrCreateOpaqueResultType, any other to validateType
CheckResultInterface ==
  /\ spc = "paramsResolved"
  /\ IF isNull(resultTyLoc)
       THEN UNCHANGED <<resultTyLoc, buildersCreated, steps>>
       ELSE IF resultTyLoc.repr = "opaque"
         THEN /\ \E o \in OpaqueResults :
                   /\ resultTyLoc' = [resultTyLoc EXCEPT !.type = o.type]
                   /\ buildersCreated' =
                        IF o.builds
                          THEN Append(buildersCreated, "opaqueResult")
                          ELSE buildersCreated
              /\ Did(<<"getOrCreateOpaqueResultType">>)
         ELSE /\ \E resolved \in {"interface", "error"} :
                   resultTyLoc' = validateType(resultTyLoc, resolved)
              /\ Did(<<"validateType:interface">>)
              /\ UNCHANGED buildersCreated
  /\ spc' = "resultResolved"
  /\ UNCHANGED <<notSig, sdecl, genericEnvironment, sig, builder, envsCreated,
                 params, envCall, envReturned>>

\* func ? func->computeType() : subscr->computeType();
ComputeType ==
  /\ spc = "resultResolved"
  /\ Did(<<"computeType">>)
  /\ spc' = "done"
  /\ UNCHANGED <<notSig, sdecl, genericEnvironment, sig, builder,
                 buildersCreated, envsCreated, resultTyLoc, params, envCall,
                 envReturned>>

\* validateGenericTypeSignature: if (auto *proto = dyn_cast<ProtocolDecl>(...))
ProtocolReturns ==
  /\ InType /\ spc = "entry" /\ sdecl.kind = "protocol"
  /\ spc' = "done"
  /\ UNCHANGED <<notSig, sdecl, genericEnvironment, sig, builder,
                 buildersCreated, envsCreated, resultTyLoc, params, envCall,
                 envReturned, steps>>

\* if (!gp) { typeDecl->setGenericEnvironment(
\*              dc->getGenericEnvironmentOfContext()); return; }
TypeInheritsEnvironment ==
  /\ InType /\ spc = "entry" /\ sdecl.kind # "protocol"
  /\ ~hasGenericParams
  /\ genericEnvironment' = ContextEnvironment
  /\ Did(<<"setGenericEnvironment">>)
  /\ spc' = "done"
  /\ UNCHANGED <<notSig, sdecl, sig, builder, buildersCreated, envsCreated,
                 resultTyLoc, params, envCall, envReturned>>

\* gp->setDepth(typeDecl->getGenericContextDepth());
\* checkGenericEnvironment(gp, dc, dc->getGenericSignatureOfContext(),
\*                         /*allowConcreteGenericParams=*/false, /*ext=*/nullptr)
TypeCallsCheckGenericEnvironment ==
  /\ InType /\ spc = "entry" /\ sdecl.kind # "protocol"
  /\ hasGenericParams
  /\ sdecl' = [sdecl EXCEPT !.depth = getGenericContextDepth]
  /\ envCall' =
       [genericParams |->
          IF sdecl.contextGeneric
            THEN <<sdecl.genericParams, GenericParamList(1, 0)>>
            ELSE <<sdecl.genericParams>>,
        depth |-> getGenericContextDepth,
        parentSig |-> ContextSignature,
        allowConcreteGenericParams |-> FALSE,
        ext |-> "none",
        trailingWhereClause |-> FALSE,
        redundantRequirement |-> FALSE,
        extendedDepth |-> NoDepth,
        mustInferRequirements |-> FALSE]
  /\ Did(<<"setDepth">>)
  /\ spc' = "env:entry"
  /\ UNCHANGED <<notSig, genericEnvironment, sig, builder, buildersCreated,
                 envsCreated, resultTyLoc, params, envReturned>>

\* getExtendedTypeGenericDepth(ext): NoDepth when the extended type names no
\* nominal type or the nominal type has no generic signature
getExtendedTypeGenericDepth ==
  IF envCall.ext = "unresolved" THEN NoDepth ELSE envCall.extendedDepth

\* variant: a trailing where clause does not ask for a builder
NeedsBuilder_IgnoresWhereClause ==
  \/ envCall.ext = "none"
  \/ envCall.mustInferRequirements
  \/ getExtendedTypeGenericDepth # envCall.depth

\* the condition of the if in checkGenericEnvironment
NeedsBuilder ==
  \/ envCall.ext = "none"
  \/ envCall.mustInferRequirements
  \/ envCall.trailingWhereClause
  \/ getExtendedTypeGenericDepth # envCall.depth

\* ext->getSelfNominalTypeDecl()->getGenericSignatureOfContext()
NominalSignature == Signature("nominal", 0, <<>>)

\* checkGenericParamList on the list of a protocol extension: a where-clause
\* requirement `Self: P` of an extension of P is diagnosed as redundant
redundantRequirementDiagnosed ==
  IF envCall.ext = "protocol" /\ envCall.redundantRequirement
    THEN <<"diagnose:protocol_extension_redundant_requirement">>
    ELSE <<>>

\* GenericSignatureBuilder builder(Context); the parameter lists are checked,
\* outermost first when there are outer lists and no parent signature
CheckEnvironmentParams ==
  /\ spc = "env:entry" /\ NeedsBuilder
  /\ buildersCreated' = Append(buildersCreated, "declaration")
  /\ builder' =
       [live |-> TRUE,
        ops |-> IF Len(envCall.genericParams) > 1
                     /\ envCall.parentSig = NullSignature
                  THEN visitOuterToInner(<<>>, envCall.genericParams,
                                         envCall.depth)
                  ELSE checkGenericParamList(<<>>, envCall.genericParams[1],
                                             envCall.depth,
                                             envCall.parentSig)]
  /\ Did(<<"GenericSignatureBuilder", "checkGenericParamList">>
           \o redundantRequirementDiagnosed)
  /\ spc' = "env:checked"
  /\ UNCHANGED <<notSig, sdecl, genericEnvironment, sig, envsCreated,
                 resultTyLoc, params, envCall, envReturned>>

\* inferRequirements(builder);
InferRequirements ==
  /\ spc = "env:checked"
  /\ builder' = [builder EXCEPT
                   !.ops = Append(@, BuilderOp("inferRequirements", 0, 0))]
  /\ Did(<<"inferRequirements">>)
  /\ spc' = "env:inferred"
  /\ UNCHANGED <<notSig, sdecl, genericEnvironment, sig, buildersCreated,
                 envsCreated, resultTyLoc, params, envCall, envReturned>>

\* sig = std::move(builder).computeGenericSignature(
\*         genericParams->getSourceRange().Start, allowConcreteGenericParams);
ComputeEnvironmentSignature ==
  /\ spc = "env:inferred"
  /\ sig' = Signature("built", Len(buildersCreated), builder.ops)
  /\ builder' = [builder EXCEPT !.live = FALSE]
  /\ Did(<<"computeGenericSignature">>)
  /\ spc' = "env:signed"
  /\ UNCHANGED <<notSig, sdecl, genericEnvironment, buildersCreated,
                 envsCreated, resultTyLoc, params, envCall, envReturned>>

\* else: re-use the signature of the type being extended
ReuseExtendedSignature ==
  /\ spc = "env:entry" /\ ~NeedsBuilder
  /\ sig' = NominalSignature
  /\ Did(<<"getGenericSignatureOfContext">>)
  /\ spc' = "env:signed"
  /\ UNCHANGED <<notSig, sdecl, genericEnvironment, builder, buildersCreated,
                 envsCreated, resultTyLoc, params, envCall, envReturned>>

\* return sig->createGenericEnvironment();
ReturnEnvironment ==
  /\ spc = "env:signed"
  /\ envsCreated' = envsCreated + 1
  /\ envReturned' = Environment(sig, envsCreated + 1)
  /\ Did(<<"createGenericEnvironment">>)
  /\ spc' = IF InType THEN "env:returned" ELSE "done"
  /\ UNCHANGED <<notSig, sdecl, genericEnvironment, sig, builder,
                 buildersCreated, resultTyLoc, params, envCall>>

\* typeDecl->setGenericEnvironment(env);
TypeSetsEnvironment ==
  /\ InType /\ spc = "env:returned"
  /\ genericEnvironment' = envReturned
  /\ Did(<<"setGenericEnvironment">>)
  /\ spc' = "done"
  /\ UNCHANGED <<notSig, sdecl, sig, builder, buildersCreated, envsCreated,
                 resultTyLoc, params, envCall, envReturned>>

(***************************************************************************)
(* The declarations handed to the three functions.                         *)
(***************************************************************************)
\* most parameters of a function or indices of a subscript
MaxParams == 2
\* most generic parameters of one generic parameter list
MaxGenericParams == 2
\* most requirements of one where clause
MaxWhere == 1
\* most generic parameter lists nested in one another
MaxLists == 2

GenericParamLists ==
  { GenericParamList(n, w) : n \in 1..MaxGenericParams, w \in 0..MaxWhere }

\* type locations of parameters: written in the source, or set by the
\* compiler for a declaration it synthesized
ParamTypeLocs == { TypeLoc("plain", "null"), TypeLoc("none", "preset") }
ParamLists == UNION { [1..n -> ParamTypeLocs] : n \in 0..MaxParams }

\* the result type location by kind of declaration: a constructor has none
\* (emptyLoc), a function may have none
ResultTypeLocs(kind) ==
  CASE kind = "constructor" -> { NullTypeLoc }
    [] kind = "func" ->
         { NullTypeLoc, TypeLoc("none", "preset"), TypeLoc("plain", "null"),
           TypeLoc("opaque", "null") }
    [] OTHER ->
         { TypeLoc("none", "preset"), TypeLoc("plain", "null"),
           TypeLoc("opaque", "null") }

\* an accessor has a generic parameter list exactly when its storage is a
\* subscript with one: the list of an accessor is a copy of its subscript's
FuncOrSubscriptDecls ==
  { d \in [entry : {"validateGenericFuncOrSubscriptSignature"},
           kind : {"func", "constructor", "subscript", "accessor"},
           genericParams : GenericParamLists \cup {NoParamList},
           depth : {0},
           contextGeneric : BOOLEAN,
           storage : {"none", "var", "subscript", "genericSubscript"}] :
      /\ d.kind = "accessor" <=> d.storage # "none"
      /\ d.kind = "accessor" =>
           (d.genericParams # NoParamList <=> d.storage = "genericSubscript") }

TypeDecls ==
  [entry : {"validateGenericTypeSignature"},
   kind : {"struct", "protocol"},
   genericParams : GenericParamLists \cup {NoParamList},
   depth : {0},
   contextGeneric : BOOLEAN,
   storage : {"none"}]

\* the calls of checkGenericEnvironment made for extensions and other
\* contexts: the where clause of an extension is its trailing where clause,
\* a list at depth d has at most d lists around it, and the signature of a
\* protocol has the one parameter Self, at depth 0
EnvironmentCalls ==
  { c \in [genericParams :
             UNION { [1..n -> GenericParamLists] : n \in 1..MaxLists },
           depth : 0..(MaxLists - 1),
           parentSig : {NullSignature, Signature("context", 0, <<>>)},
           allowConcreteGenericParams : BOOLEAN,
           ext : {"none", "unresolved", "nominal", "protocol"},
           trailingWhereClause : BOOLEAN,
           redundantRequirement : BOOLEAN,
           extendedDepth : {NoDepth} \cup 0..(MaxLists - 1),
           mustInferRequirements : BOOLEAN] :
      /\ c.depth >= Len(c.genericParams) - 1
      /\ c.ext = "none" => ~c.trailingWhereClause
      /\ c.ext # "none" =>
           (c.trailingWhereClause <=> c.genericParams[1].where > 0)
      /\ c.ext \in {"none", "unresolved"} => c.extendedDepth = NoDepth
      /\ c.ext = "protocol" =>
           c.extendedDepth = 0 /\ Len(c.genericParams) = 1
      /\ c.redundantRequirement =>
           c.ext = "protocol" /\ c.trailingWhereClause }

InitFuncOrSubscript ==
  /\ sdecl \in FuncOrSubscriptDecls
  /\ resultTyLoc \in ResultTypeLocs(sdecl.kind)
  /\ params \in ParamLists
  /\ envCall = NoEnvCall

InitType ==
  /\ sdecl \in TypeDecls
  /\ resultTyLoc = NullTypeLoc
  /\ params = <<>>
  /\ envCall = NoEnvCall

InitEnvironment ==
  /\ envCall \in EnvironmentCalls
  /\ sdecl = [entry |-> "checkGenericEnvironment",
              kind |-> IF envCall.ext = "none" THEN "context"
                                               ELSE "extension",
              genericParams |-> envCall.genericParams[1],
              depth |-> envCall.depth,
              contextGeneric |-> envCall.parentSig # NullSignature,
              storage |-> "none"]
  /\ resultTyLoc = NullTypeLoc
  /\ params = <<>>

\* the state on entry to one of the three functions
InitSig ==
  /\ \/ InitFuncOrSubscript /\ spc = "entry"
     \/ InitType /\ spc = "entry"
     \/ InitEnvironment /\ spc = "env:entry"
  /\ genericEnvironment = NullEnvironment
  /\ sig = NullSignature
  /\ builder = NoBuilder
  /\ buildersCreated = <<>>
  /\ envsCreated = 0
  /\ envReturned = NullEnvironment
  /\ steps = <<>>
  /\ ArgsIdle
  /\ RefIdle
  /\ OpaqueIdle
  /\ DemandIdle
  /\ CallsIdle
  /\ BuilderIdle

NextSig ==
  \/ SetDepth
  \/ InheritEnvironment
  \/ AccessorReturns
  \/ UseContextSignature
  \/ CheckGenericParams
  \/ CheckParamsStructural
  \/ InferFromParams
  \/ CheckResultStructural
  \/ InferFromResult
  \/ ComputeSignature
  \/ RevertTypeLocs
  \/ CreateEnvironment
  \/ CheckParamsInterface
  \/ CheckResultInterface
  \/ ComputeType
  \/ ProtocolReturns
  \/ TypeInheritsEnvironment
  \/ TypeCallsCheckGenericEnvironment
  \/ CheckEnvironmentParams
  \/ InferRequirements
  \/ ComputeEnvironmentSignature
  \/ ReuseExtendedSignature
  \/ ReturnEnvironment
  \/ TypeSetsEnvironment

SpecSig == InitSig /\ [][NextSig]_vars

(***************************************************************************)
(* getOrCreateOpaqueResultType.  The builder of a call is the sequence of  *)
(* the calls made on it; computeGenericSignature turns it into the         *)
(* signature.                                                              *)
(***************************************************************************)
\* one call on the GenericSignatureBuilder of getOrCreateOpaqueResultType
BuilderCall(o, a) == [op |-> o, arg |-> a]

\* the generic parameters a sequence of builder calls registers, in order:
\* addGenericSignature takes over the parameters of the outer signature,
\* addGenericParameter registers one parameter
RECURSIVE builderParams(_)
builderParams(calls) ==
  IF calls = <<>> THEN <<>>
  ELSE (CASE Head(calls).op = "addGenericSignature" -> Head(calls).arg.params
          [] Head(calls).op = "addGenericParameter" -> <<Head(calls).arg>>
          [] OTHER -> <<>>)
       \o builderParams(Tail(calls))

\* the requirements a sequence of builder calls hands over, in order:
\* addGenericSignature takes over the requirements of the outer signature
RECURSIVE builderRequirements(_)
builderRequirements(calls) ==
  IF calls = <<>> THEN <<>>
  ELSE (CASE Head(calls).op = "addGenericSignature" ->
               Head(calls).arg.requirements
          [] Head(calls).op = "addRequirement" -> <<Head(calls).arg>>
          [] OTHER -> <<>>)
       \o builderRequirements(Tail(calls))

\* a sequence without the repetitions of its elements
RECURSIVE withoutDuplicates(_)
withoutDuplicates(rs) ==
  IF rs = <<>> THEN <<>>
  ELSE LET front == withoutDuplicates(SubSeq(rs, 1, Len(rs) - 1))
           last  == rs[Len(rs)]
       IN IF \E k \in DOMAIN front : front[k] = last
            THEN front ELSE Append(front, last)

\* a dependent member type of a generic parameter, p.a
DependentMemberType(p, a) == [param |-> p, assoc |-> a]
isDependentMember(t) == "assoc" \in DOMAIN t

\* the order of type parameters in which the representative of an
\* equivalence class is chosen: a bare parameter before a dependent member
\* type, then by depth and index
canonicalRank(t) ==
  IF isDependentMember(t) THEN 100 + 10 * t.param.depth + t.param.index
  ELSE 10 * t.depth + t.index

\* the order of the names of classes, layout constraints and protocols
CanonicalNames ==
  <<"Base", "Class", "AnyObject", "P", "Q", "R", "P1", "P2", "P3", "P4">>
nameRank(n) == CHOOSE i \in DOMAIN CanonicalNames : CanonicalNames[i] = n

\* the order of the requirements on one subject: superclass, conformances
\* by protocol, layout, same-type by the other type
requirementRank(r) ==
  CASE r.kind = "Superclass"  -> 1000 + nameRank(r.second.base)
    [] r.kind = "Conformance" -> 2000 + nameRank(r.second.base)
    [] r.kind = "Layout"      -> 3000 + nameRank(r.second.base)
    [] OTHER                  -> 4000 + canonicalRank(r.second)

\* an equivalence class of the builder: the types known to be the same and
\* the constraints attached to them, as written and in order of arrival
EquivalenceClass(ms, cs) == [members |-> ms, constraints |-> cs]

\* the class of the type t, a new class when t was not seen before
classOf(classes, t) ==
  IF \E c \in classes : t \in c.members
    THEN CHOOSE c \in classes : t \in c.members
    ELSE EquivalenceClass({t}, <<>>)

\* GenericSignatureBuilder::addGenericParameter: a class of its own
addGenericParameter(classes, p) ==
  classes \cup {classOf(classes, p)}

\* GenericSignatureBuilder::addRequirement: a same-type requirement unions
\* the classes of its two types; any other requirement is attached to the
\* class of its subject
addRequirement(classes, r) ==
  LET c1 == classOf(classes, r.first)
  IN IF r.kind = "SameType"
       THEN LET c2 == classOf(classes, r.second)
            IN IF c1 = c2 THEN classes \cup {c1}
               ELSE (classes \ {c1, c2})
                    \cup {EquivalenceClass(c1.members \cup c2.members,
                                           c1.constraints \o c2.constraints)}
       ELSE (classes \ {c1})
            \cup {EquivalenceClass(c1.members, Append(c1.constraints, r))}

RECURSIVE addRequirements(_, _)
addRequirements(classes, rs) ==
  IF rs = <<>> THEN classes
  ELSE addRequirements(addRequirement(classes, Head(rs)), Tail(rs))

RECURSIVE addGenericParameters(_, _)
addGenericParameters(classes, ps) ==
  IF ps = <<>> THEN classes
  ELSE addGenericParameters(addGenericParameter(classes, Head(ps)), Tail(ps))

\* the equivalence classes of a builder after a sequence of calls
RECURSIVE builderClasses(_)
builderClasses(calls) ==
  IF calls = <<>> THEN {}
  ELSE LET before == builderClasses(SubSeq(calls, 1, Len(calls) - 1))
           call == calls[Len(calls)]
       IN CASE call.op = "addGenericSignature" ->
                 addRequirements(addGenericParameters(before, call.arg.params),
                                 call.arg.requirements)
            [] call.op = "addGenericParameter" ->
                 addGenericParameter(before, call.arg)
            [] call.op = "addRequirement" -> addRequirement(before, call.arg)
            [] OTHER -> before

\* the canonical type of an equivalence class
representative(c) ==
  CHOOSE m \in c.members :
    \A n \in c.members : canonicalRank(m) <= canonicalRank(n)

\* a set of requirements on one subject as a sequence in canonical order
RECURSIVE sortedRequirements(_)
sortedRequirements(S) ==
  IF S = {} THEN <<>>
  ELSE LET r == CHOOSE x \in S :
                  \A y \in S : requirementRank(x) <= requirementRank(y)
       IN <<r>> \o sortedRequirements(S \ {r})

\* the same-type requirements that tie the members of a class to its
\* representative
sameTypeRequirements(c) ==
  { SameType(representative(c), m) : m \in c.members \ {representative(c)} }

\* variant: the constraints of a class are retained in order of arrival
classRequirements_InArrivalOrder(c) ==
  withoutDuplicates([i \in DOMAIN c.constraints |->
                       Req(c.constraints[i].kind, representative(c),
                           c.constraints[i].second)])
  \o sortedRequirements(sameTypeRequirements(c))

\* variant: the constraints of a class are retained on the subject they
\* were written on
classRequirements_AsWritten(c) ==
  sortedRequirements({ Req(c.constraints[i].kind, representative(c),
                           c.constraints[i].second) :
                         i \in { j \in DOMAIN c.constraints :
                                   c.constraints[j].first
                                     = representative(c) } })
  \o withoutDuplicates(SelectSeq(c.constraints,
                                 LAMBDA r : r.first # representative(c)))
  \o sortedRequirements(sameTypeRequirements(c))

\* the requirements retained for an equivalence class: every constraint
\* attached to the class once, on the representative, and the same-type
\* requirements of the other members
classRequirements(c) ==
  sortedRequirements(
    { Req(c.constraints[i].kind, representative(c), c.constraints[i].second) :
        i \in DOMAIN c.constraints }
    \cup sameTypeRequirements(c))

\* the requirements of the classes in the order of their representatives
RECURSIVE minimizedRequirements(_)
minimizedRequirements(classes) ==
  IF classes = {} THEN <<>>
  ELSE LET c == CHOOSE x \in classes :
                  \A y \in classes : canonicalRank(representative(x))
                                       <= canonicalRank(representative(y))
       IN classRequirements(c) \o minimizedRequirements(classes \ {c})

\* GenericSignatureBuilder::computeGenericSignature: the parameters in the
\* order they were registered, and the requirements of the equivalence
\* classes, canonical and without the redundant ones
computeGenericSignature(calls) ==
  GenericSignature(builderParams(calls),
                   minimizedRequirements(builderClasses(calls)))

\* isa<ProtocolDecl>(originatingDecl->getDeclContext())
\*   && originatingDecl->isProtocolRequirement()
inProtocolRequirement == odecl.inProtocol /\ odecl.isProtocolRequirement

\* existingDecl->getDeclaredInterfaceType(): the instance type of the
\* metatype that is the declaration's interface type
getDeclaredInterfaceType(d) == d.interfaceType.instance

\* the protocols of constraintType->getExistentialLayout()
ProtocolNames == <<"P1", "P2", "P3", "P4">>

\* the call returns: `path` names the return statement taken, `made` is what
\* has been created up to the return
Return(path, type, made) ==
  /\ ocalls' = Append(ocalls, [path |-> path, returned |-> type,
                               made |-> made])
  /\ opc' = "idle"

\* variant: the error type is returned without a diagnostic
RejectProtocolRequirement_Silent ==
  /\ opc = "entry" /\ inProtocolRequirement
  /\ Return("protocolRequirement", OpaqueErrorType, ocreated)
  /\ UNCHANGED <<notOpaque, odecl, opaqueResultTypeDecl, obuilder,
                 returnTypeParam, interfaceSignature, odiags, ocreated>>

\* diagnose(opaque_type_in_protocol_requirement); return ErrorType::get(Context)
RejectProtocolRequirement ==
  /\ opc = "entry" /\ inProtocolRequirement
  /\ odiags' = Append(odiags, "opaque_type_in_protocol_requirement")
  /\ Return("protocolRequirement", OpaqueErrorType, ocreated)
  /\ UNCHANGED <<notOpaque, odecl, opaqueResultTypeDecl, obuilder,
                 returnTypeParam, interfaceSignature, ocreated>>

\* if (auto existingDecl = originatingDecl->getOpaqueResultTypeDecl())
\*   return existingDecl->getDeclaredInterfaceType();
ReuseExistingDecl ==
  /\ opc = "entry" /\ ~inProtocolRequirement
  /\ opaqueResultTypeDecl # NoOpaqueTypeDecl
  /\ Return("existing", getDeclaredInterfaceType(opaqueResultTypeDecl),
            ocreated)
  /\ UNCHANGED <<notOpaque, odecl, opaqueResultTypeDecl, obuilder,
                 returnTypeParam, interfaceSignature, odiags, ocreated>>

\* the availability of the opaque type runtime support is checked
CheckAvailability ==
  /\ opc = "entry" /\ ~inProtocolRequirement
  /\ opaqueResultTypeDecl = NoOpaqueTypeDecl
  /\ odiags' = IF odecl.unavailable
                 THEN Append(odiags, "availability_opaque_types")
                 ELSE odiags
  /\ opc' = "resolve"
  /\ UNCHANGED <<notOpaque, odecl, opaqueResultTypeDecl, obuilder,
                 returnTypeParam, interfaceSignature, ocalls, ocreated>>

\* validateType reports an error: the (error) type of the location is returned
ConstraintFailsToResolve ==
  /\ opc = "resolve"
  /\ Return("unresolved", OpaqueErrorType, ocreated)
  /\ UNCHANGED <<notOpaque, odecl, opaqueResultTypeDecl, obuilder,
                 returnTypeParam, interfaceSignature, odiags, ocreated>>

\* variant: the failed result is kept on the declaration for later calls
ConstraintInvalid_RecordsDecl ==
  /\ opc = "resolve"
  /\ odecl.constraint.kind \notin {"class", "existential"}
  /\ odiags' = Append(odiags, "opaque_type_invalid_constraint")
  /\ opaqueResultTypeDecl' = [NoOpaqueTypeDecl EXCEPT !.serial = 1]
  /\ Return("invalid", ResultType(odecl.constraint.kind, 0), ocreated)
  /\ UNCHANGED <<notOpaque, odecl, obuilder, returnTypeParam,
                 interfaceSignature, ocreated>>

\* the constraint resolves to a type that is neither a class nor an
\* existential: diagnose(opaque_type_invalid_constraint), return the type
ConstraintInvalid ==
  /\ opc = "resolve"
  /\ odecl.constraint.kind \notin {"class", "existential"}
  /\ odiags' = Append(odiags, "opaque_type_invalid_constraint")
  /\ Return("invalid", ResultType(odecl.constraint.kind, 0), ocreated)
  /\ UNCHANGED <<notOpaque, odecl, opaqueResultTypeDecl, obuilder,
                 returnTypeParam, interfaceSignature, ocreated>>

\* variant: the depth of the last outer parameter is taken as it is
returnTypeDepth_OfLastParam ==
  IF odecl.outer # NoGenericSignature
    THEN odecl.outer.params[Len(odecl.outer.params)].depth
    ELSE 0

\* unsigned returnTypeDepth = 0; if (outerGenericSignature) returnTypeDepth =
\*   outerGenericSignature->getGenericParams().back()->getDepth() + 1;
returnTypeDepth ==
  IF odecl.outer # NoGenericSignature
    THEN odecl.outer.params[Len(odecl.outer.params)].depth + 1
    ELSE 0

\* variant: the builder is not given the outer signature
StartBuilder_WithoutOuter ==
  /\ opc = "resolve"
  /\ odecl.constraint.kind \in {"class", "existential"}
  /\ returnTypeParam' = GenericTypeParam(returnTypeDepth, 0)
  /\ obuilder' = <<BuilderCall("addGenericParameter", returnTypeParam')>>
  /\ ocreated' = [ocreated EXCEPT !.builders = @ + 1, !.params = @ + 1]
  /\ opc' = "requirements"
  /\ UNCHANGED <<notOpaque, odecl, opaqueResultTypeDecl, interfaceSignature,
                 ocalls, odiags>>

\* GenericSignatureBuilder builder(Context); the outer signature, if any, is
\* added; returnTypeParam = GenericTypeParamType::get(returnTypeDepth, 0);
\* builder.addGenericParameter(returnTypeParam);
StartBuilder ==
  /\ opc = "resolve"
  /\ odecl.constraint.kind \in {"class", "existential"}
  /\ returnTypeParam' = GenericTypeParam(returnTypeDepth, 0)
  /\ obuilder' =
       (IF odecl.outer # NoGenericSignature
          THEN <<BuilderCall("addGenericSignature", odecl.outer)>>
          ELSE <<>>)
       \o <<BuilderCall("addGenericParameter", returnTypeParam')>>
  /\ ocreated' = [ocreated EXCEPT !.builders = @ + 1, !.params = @ + 1]
  /\ opc' = "requirements"
  /\ UNCHANGED <<notOpaque, odecl, opaqueResultTypeDecl, interfaceSignature,
                 ocalls, odiags>>

\* the requirements put on returnTypeParam for the constraint c: for a class
\* the class as superclass; for an existential the superclass, the protocols
\* and the layout constraint of its layout
constraintRequirements(c, p) ==
  IF c.kind = "class"
    THEN <<Superclass(p, Ty("Class", 0))>>
    ELSE (IF c.superclass THEN <<Superclass(p, Ty("Base", 0))>> ELSE <<>>)
         \o [i \in 1..c.protocols |-> Conformance(p, ProtocolNames[i])]
         \o (IF c.layout THEN <<Layout(p)>> ELSE <<>>)

\* the builder.addRequirement calls of lines 246-271
AddConstraintRequirements ==
  /\ opc = "requirements"
  /\ obuilder' =
       obuilder
       \o LET rs == constraintRequirements(odecl.constraint, returnTypeParam)
          IN [i \in DOMAIN rs |-> BuilderCall("addRequirement", rs[i])]
  /\ opc' = "compute"
  /\ UNCHANGED <<notOpaque, odecl, opaqueResultTypeDecl, returnTypeParam,
                 interfaceSignature, ocalls, odiags, ocreated>>

\* interfaceSignature = std::move(builder).computeGenericSignature(SourceLoc())
ComputeInterfaceSignature ==
  /\ opc = "compute"
  /\ interfaceSignature' = computeGenericSignature(obuilder)
  /\ opc' = "declare"
  /\ UNCHANGED <<notOpaque, odecl, opaqueResultTypeDecl, obuilder,
                 returnTypeParam, ocalls, odiags, ocreated>>

\* new (Context) OpaqueTypeDecl(...) with its environment and interface type
NewOpaqueTypeDecl ==
  [serial |-> ocreated.decls + 1,
   genericParams |-> odecl.genericParams,
   signature |-> interfaceSignature,
   param |-> returnTypeParam,
   environment |-> odecl.outer # NoGenericSignature,
   interfaceType |->
     MetatypeType(OpaqueTypeArchetypeType(ocreated.decls + 1))]

\* variant: the new declaration is not recorded on the originating one
CreateOpaqueTypeDecl_NotRecorded ==
  /\ opc = "declare"
  /\ ocreated' = [ocreated EXCEPT !.decls = @ + 1]
  /\ Return("created", OpaqueTypeArchetypeType(NewOpaqueTypeDecl.serial),
            [ocreated EXCEPT !.decls = @ + 1])
  /\ UNCHANGED <<notOpaque, odecl, opaqueResultTypeDecl, obuilder,
                 returnTypeParam, interfaceSignature, odiags>>

\* the OpaqueTypeDecl is created, recorded with setOpaqueResultTypeDecl, and
\* its opaque archetype is returned
CreateOpaqueTypeDecl ==
  /\ opc = "declare"
  /\ opaqueResultTypeDecl' = NewOpaqueTypeDecl
  /\ ocreated' = [ocreated EXCEPT !.decls = @ + 1]
  /\ Return("created", OpaqueTypeArchetypeType(NewOpaqueTypeDecl.serial),
            [ocreated EXCEPT !.decls = @ + 1])
  /\ UNCHANGED <<notOpaque, odecl, obuilder, returnTypeParam,
                 interfaceSignature, odiags>>

\* most calls made for one declaration
MaxCalls == 3

\* the function is called again for the same declaration
CalledAgain ==
  /\ opc = "idle" /\ Len(ocalls) < MaxCalls
  /\ opc' = "entry"
  /\ obuilder' = <<>>
  /\ returnTypeParam' = NoGenericTypeParam
  /\ interfaceSignature' = NoGenericSignature
  /\ UNCHANGED <<notOpaque, odecl, opaqueResultTypeDecl, ocalls, odiags,
                 ocreated>>

(***************************************************************************)
(* The declarations with an opaque result type.                            *)
(***************************************************************************)
\* most levels of generic parameters of the enclosing signature
MaxOuterLevels == 2
\* most generic parameters of one level of the enclosing signature
MaxOuterWidth == 2
\* most protocols of an existential constraint
MaxProtocols == 2

\* the parameters of a signature of l levels with w parameters each, ordered
\* by depth and index
outerParams(l, w) ==
  [k \in 1..(l * w) |-> GenericTypeParam((k - 1) \div w, (k - 1) % w)]

\* originatingDC->getGenericSignatureOfContext(): none, or a signature whose
\* parameters are ordered by depth
OuterSignatures ==
  { NoGenericSignature }
    \cup { GenericSignature(outerParams(l, w), rs) :
             l \in 1..MaxOuterLevels, w \in 1..MaxOuterWidth,
             rs \in { <<>>,
                      <<Conformance(GenericTypeParam(0, 0), "P1")>> } }

\* what repr->getConstraint() resolves to
Constraints ==
  { c \in [kind : {"struct", "class", "existential"},
           superclass : BOOLEAN,
           protocols : 0..MaxProtocols,
           layout : BOOLEAN] :
      c.kind # "existential" =>
        ~c.superclass /\ c.protocols = 0 /\ ~c.layout }

\* a declaration with generic parameters is its own innermost context and so
\* has a signature; only a declaration in a protocol can be a requirement
OriginatingDecls ==
  { d \in [inProtocol : BOOLEAN,
           isProtocolRequirement : BOOLEAN,
           genericParams : BOOLEAN,
           outer : OuterSignatures,
           unavailable : BOOLEAN,
           constraint : Constraints] :
      /\ d.isProtocolRequirement => d.inProtocol
      /\ d.inProtocol => d.outer # NoGenericSignature
      /\ d.genericParams => d.outer # NoGenericSignature }

\* the state on entry to the first call for a declaration
InitOpaque ==
  /\ odecl \in OriginatingDecls
  /\ opc = "entry"
  /\ opaqueResultTypeDecl = NoOpaqueTypeDecl
  /\ obuilder = <<>>
  /\ returnTypeParam = NoGenericTypeParam
  /\ interfaceSignature = NoGenericSignature
  /\ ocalls = <<>>
  /\ odiags = <<>>
  /\ ocreated = [builders |-> 0, params |-> 0, decls |-> 0]
  /\ ArgsIdle
  /\ RefIdle
  /\ SigIdle
  /\ DemandIdle
  /\ CallsIdle
  /\ BuilderIdle

NextOpaque ==
  \/ RejectProtocolRequirement
  \/ ReuseExistingDecl
  \/ CheckAvailability
  \/ ConstraintFailsToResolve
  \/ ConstraintInvalid
  \/ StartBuilder
  \/ AddConstraintRequirements
  \/ ComputeInterfaceSignature
  \/ CreateOpaqueTypeDecl
  \/ CalledAgain

SpecOpaque == InitOpaque /\ [][NextOpaque]_vars

(***************************************************************************)
(* Requests for the generic environment of a declaration.  The functions   *)
(* validateGenericFuncOrSubscriptSignature and validateGenericTypeSignature *)
(* compute and set the environment; whether they are called for a          *)
(* declaration is decided by the requester, which keeps the environment    *)
(* on the declaration and follows the compute-or-join discipline: the      *)
(* first request computes, a request for a computed environment joins it,  *)
(* a request for a declaration under computation is a cyclic dependency.   *)
(***************************************************************************)
\* requests made in one run
MaxRequests == 4

\* what a request finds on the declaration
declState(d) ==
  IF \E i \in DOMAIN inProgress : inProgress[i] = d THEN "inProgress"
  ELSE IF envSets[d] > 0 THEN "published"
  ELSE "absent"

Request(d, outcome) ==
  /\ Len(requests) < MaxRequests
  /\ requests' = Append(requests, [decl |-> d, found |-> declState(d),
                                   outcome |-> outcome])

\* first request: the validate function of the declaration is entered; the
\* one for type declarations asserts that no environment is set yet
StartValidation ==
  \E d \in Declarations :
    /\ declState(d) = "absent"
    /\ Request(d, "started")
    /\ inProgress' = Append(inProgress, d)
    /\ assertFailed' = (assertFailed \/ (isTypeDecl(d) /\ envSets[d] > 0))
    /\ UNCHANGED <<notDemand, envSets, cycles>>

\* a request for a declaration whose environment is set uses that environment
JoinPublished ==
  \E d \in Declarations :
    /\ declState(d) = "published"
    /\ Request(d, "joined")
    /\ UNCHANGED <<notDemand, envSets, inProgress, cycles, assertFailed>>

\* variant: a request for a declaration under validation validates it again
ReportCycle_Recurses ==
  \E d \in Declarations :
    /\ declState(d) = "inProgress"
    /\ Request(d, "started")
    /\ inProgress' = Append(inProgress, d)
    /\ assertFailed' = (assertFailed \/ (isTypeDecl(d) /\ envSets[d] > 0))
    /\ UNCHANGED <<notDemand, envSets, cycles>>

\* a request for a declaration under validation is reported as a cyclic
\* dependency and validates nothing
ReportCycle ==
  \E d \in Declarations :
    /\ declState(d) = "inProgress"
    /\ Request(d, "cycle")
    /\ cycles' = Append(cycles, d)
    /\ UNCHANGED <<notDemand, envSets, inProgress, assertFailed>>

\* genCtx->setGenericEnvironment(...) / typeDecl->setGenericEnvironment(env):
\* the innermost validation sets the environment and returns
SetGenericEnvironment ==
  /\ inProgress # <<>>
  /\ LET d == inProgress[Len(inProgress)]
     IN envSets' = [envSets EXCEPT ![d] = @ + 1]
  /\ inProgress' = SubSeq(inProgress, 1, Len(inProgress) - 1)
  /\ UNCHANGED <<notDemand, requests, cycles, assertFailed>>

InitDemand ==
  /\ DemandIdle
  /\ CallsIdle
  /\ BuilderIdle
  /\ ArgsIdle
  /\ RefIdle
  /\ SigIdle
  /\ OpaqueIdle

NextDemand ==
  \/ StartValidation
  \/ JoinPublished
  \/ ReportCycle
  \/ SetGenericEnvironment

SpecDemand == InitDemand /\ [][NextDemand]_vars

(***************************************************************************)
(* A GenericSignatureBuilder that is given its generic parameters and then *)
(* the requirements of a list in any order, as checkGenericParamList and   *)
(* the inference of validateGenericFuncOrSubscriptSignature feed it, and   *)
(* whose signature is then computed.                                       *)
(***************************************************************************)
MaxBuilderReqs == 3

\* the generic parameters <T, U, V> of the builder
BuilderParams ==
  <<GenericTypeParam(0, 0), GenericTypeParam(0, 1), GenericTypeParam(0, 2)>>

\* the requirements a list is made of
BuilderRequirementChoices ==
  LET T == BuilderParams[1]
      U == BuilderParams[2]
      V == BuilderParams[3]
  IN <<Conformance(T, "P1"), Conformance(U, "P1"), Conformance(U, "P2"),
       Conformance(V, "P1"), SameType(T, U), SameType(U, T), SameType(V, U),
       SameType(DependentMemberType(T, "A"), U),
       Conformance(DependentMemberType(T, "A"), "P2"),
       Layout(V), Superclass(U, Ty("Base", 0))>>

\* the lists of at most MaxBuilderReqs requirements, one per multiset
BuilderRequirementLists ==
  { [i \in DOMAIN ks |-> BuilderRequirementChoices[ks[i]]] :
      ks \in { js \in UNION { [1..n -> DOMAIN BuilderRequirementChoices] :
                                n \in 0..MaxBuilderReqs } :
                 \A i \in DOMAIN js : i > 1 => js[i - 1] <= js[i] } }

\* builder.addGenericParameter(param) for the next parameter of the list
AddGenericParameter ==
  /\ Len(gsbCalls) < Len(BuilderParams)
  /\ gsbCalls' = Append(gsbCalls,
                        BuilderCall("addGenericParameter",
                                    BuilderParams[Len(gsbCalls) + 1]))
  /\ UNCHANGED <<notBuilder, gsbRequirements, gsbAdded, gsbSignature>>

\* builder.addRequirement(req, source, module) for a requirement that was
\* not added yet
AddRequirement ==
  /\ Len(gsbCalls) >= Len(BuilderParams)
  /\ gsbSignature = NoGenericSignature
  /\ \E i \in DOMAIN gsbRequirements \ gsbAdded :
       /\ gsbCalls' = Append(gsbCalls,
                             BuilderCall("addRequirement", gsbRequirements[i]))
       /\ gsbAdded' = gsbAdded \cup {i}
  /\ UNCHANGED <<notBuilder, gsbRequirements, gsbSignature>>

\* sig = std::move(builder).computeGenericSignature(loc)
ComputeGenericSignature ==
  /\ Len(gsbCalls) >= Len(BuilderParams)
  /\ gsbAdded = DOMAIN gsbRequirements
  /\ gsbSignature = NoGenericSignature
  /\ gsbSignature' = computeGenericSignature(gsbCalls)
  /\ UNCHANGED <<notBuilder, gsbRequirements, gsbAdded, gsbCalls>>

InitBuilder ==
  /\ gsbRequirements \in BuilderRequirementLists
  /\ gsbAdded = {}
  /\ gsbCalls = <<>>
  /\ gsbSignature = NoGenericSignature
  /\ ArgsIdle
  /\ RefIdle
  /\ SigIdle
  /\ OpaqueIdle
  /\ DemandIdle
  /\ CallsIdle

NextBuilder ==
  \/ AddGenericParameter
  \/ AddRequirement
  \/ ComputeGenericSignature

SpecBuilder == InitBuilder /\ [][NextBuilder]_vars

(***************************************************************************)
(* checkGenericArguments: what the requirements say, read off the          *)
(* arguments of the call without running the work-list.                    *)
(***************************************************************************)
InContext(t) == IF hasTypeParameter(t) THEN mapTypeIntoContext(t) ELSE t

\* the i-th top-level requirement substitutes and carries no error type
TopSubstitutes(i) ==
  LET s == subst(requirements[i])
  IN /\ s # NoRequirement
     /\ ~hasError(InContext(s.first))
     /\ (s.kind # "Layout" => ~hasError(InContext(s.second)))

\* the i-th top-level requirement, substituted and mapped into the context
TopReq(i) ==
  LET s == subst(requirements[i])
  IN Req(s.kind, InContext(s.first),
         IF s.kind = "Layout" THEN s.second ELSE InContext(s.second))

Violated(r) == KindCheckFails(r.kind, r.first, r.second, r)

\* the conditional requirements of the conformance that satisfies r
ConditionalOf(r) ==
  IF r.kind = "Conformance" /\ ~Violated(r)
    THEN LET cs == conformsToProtocol(r.first, r.second.base).conditionalReqs
         IN { cs[k] : k \in DOMAIN cs }
    ELSE {}

RECURSIVE ReachedFrom(_)
ReachedFrom(S) ==
  LET N == S \cup UNION { ConditionalOf(r) : r \in S }
  IN IF N = S THEN S ELSE ReachedFrom(N)

TopReqs ==
  { TopReq(i) : i \in { j \in DOMAIN requirements : TopSubstitutes(j) } }

\* every requirement reached through satisfied conformances
AllReqs == ReachedFrom(TopReqs)

\* those of them that belong to a conditional requirement set
ConditionalReqs == UNION { ConditionalOf(r) : r \in AllReqs }

(***************************************************************************)
(* checkGenericArguments: reading the trace.                               *)
(***************************************************************************)
Done == result # "none"

Evals == { i \in DOMAIN trace : trace[i].ev # "pop" }
EvalsOf(evs) == { i \in DOMAIN trace : trace[i].ev \in evs }

\* the requirement of a trace entry, as it was checked
CheckedReq(e) ==
  Req(e.raw.kind, e.first,
      IF e.raw.kind = "Layout" THEN e.raw.second ELSE e.second)

NoneSkipped == EvalsOf({"skipped"}) = {}

\* the diagnostic event the checker emits for the violation in entry e
EventOf(e) ==
  [primary |-> [diag |-> diagnostic(e.raw.kind),
                first |-> e.first, second |-> e.second],
   note    |-> [diag |-> diagnosticNote(e.raw.kind),
                first |-> e.raw.first,
                second |-> IF e.raw.kind = "Layout" THEN NullType
                           ELSE e.raw.second],
   stack   |-> e.parents]

\* the listener took the failure over
Claimed ==
  \E i \in DOMAIN listenerCalls :
    listenerCalls[i].call = "diagnoseUnsatisfiedRequirement"
      /\ listenerCalls[i].claimed

(***************************************************************************)
(* Claims about checkGenericArguments.                                     *)
(***************************************************************************)
\* C1: the check returns Success exactly when every requirement it processed
\* (top-level list and every conditional set reached through a satisfied
\* conformance) substituted, carried no error type and passed its
\* kind-specific check; when the listener vetoed nothing, that is exactly
\* when every requirement reachable from the arguments does, and then the
\* requirements processed are all of those.
C1_SuccessIffAllPass ==
  Done =>
    /\ result = "Success" <=> EvalsOf({"substFailure", "errorType",
                                       "violated"}) = {}
    /\ NoneSkipped =>
         /\ result = "Success" <=>
              /\ \A i \in DOMAIN requirements : TopSubstitutes(i)
              /\ \A r \in AllReqs : ~Violated(r)
         /\ result = "Success" =>
              { CheckedReq(trace[i]) : i \in Evals } = AllReqs

C1_Witness ==
  /\ result = "Success"
  /\ Len(requirements) >= 2
  /\ \E i \in Evals : Len(trace[i].parents) >= 2

\* C2: the check returns SubstitutionFailure exactly when some processed
\* requirement failed to substitute or carried an error type and none was
\* violated; a violation yields Failure also after a substitution failure.
C2_SubstitutionFailureIff ==
  /\ Done =>
       (result = "SubstitutionFailure" <=>
          /\ EvalsOf({"substFailure", "errorType"}) # {}
          /\ EvalsOf({"violated"}) = {})
  /\ EvalsOf({"violated"}) # {} => result = "Failure"

C2_Witness ==
  /\ result = "Failure"
  /\ \E i \in EvalsOf({"substFailure", "errorType"}) :
       \E j \in EvalsOf({"violated"}) : i < j /\ trace[j].parents # <<>>

\* C3: a top-level Conformance requirement whose lookup fails is the last
\* thing the check does: it returns Failure in that step, no later
\* requirement is evaluated and no pending set is popped.
C3_TopLevelConformanceFailureStops ==
  \A i \in EvalsOf({"violated"}) :
    (trace[i].parents = <<>> /\ trace[i].raw.kind = "Conformance")
      => /\ i = Len(trace)
         /\ result = "Failure"
         /\ idx = Cardinality({ j \in Evals : trace[j].parents = <<>> })

C3_Witness ==
  /\ result = "Failure"
  /\ trace[Len(trace)].parents = <<>>
  /\ trace[Len(trace)].raw.kind = "Conformance"
  /\ trace[Len(trace)].ev = "violated"
  /\ idx < Len(current.Requirements)
  /\ pendingReqs # <<>>

\* the last trace entry is a violated top-level Conformance requirement
TopLevelConformanceFailed ==
  /\ trace # <<>>
  /\ trace[Len(trace)].ev = "violated"
  /\ trace[Len(trace)].parents = <<>>
  /\ trace[Len(trace)].raw.kind = "Conformance"

\* C4 (as stated): with a valid loc, a top-level Conformance requirement that
\* the argument does not satisfy makes the check return Failure and emit a
\* conformance diagnostic that names the parameter and the missing interface
\* as the primary, top-level error.
C4_TopLevelConformanceDiagnosed ==
  (loc /\ TopLevelConformanceFailed) =>
    /\ result = "Failure"
    /\ \E k \in DOMAIN diags :
         /\ diags[k].primary.diag = "type_does_not_conform_owner"
         /\ diags[k].stack = <<>>
         /\ diags[k].note.first = trace[Len(trace)].raw.first
         /\ diags[k].note.second = trace[Len(trace)].raw.second

\* C4 (amended): with a valid loc, a top-level Conformance requirement that
\* the argument does not satisfy makes the check return Failure at once, and
\* checkGenericArguments itself emits no diagnostic for it and does not ask
\* the listener to diagnose it.
C4_TopLevelConformanceNotDiagnosed ==
  (loc /\ TopLevelConformanceFailed) =>
    /\ result = "Failure"
    /\ diags = <<>>
    /\ \A k \in DOMAIN listenerCalls :
         listenerCalls[k].call # "diagnoseUnsatisfiedRequirement"

C4_Witness ==
  /\ loc /\ TopLevelConformanceFailed
  /\ result = "Failure"
  /\ trace[Len(trace)].raw.first = Ty("T", 0)
  /\ trace[Len(trace)].first \notin {Ty("T", 0), NullType, ErrorType}

C6_SubstitutionFailureContinues ==
  /\ EvalsOf({"substFailure", "errorType"}) # {} => ~valid
  /\ result \in {"Success", "SubstitutionFailure"} =>
       /\ pendingReqs = <<>>
       /\ idx = Len(current.Requirements) + 1
       /\ Cardinality({ i \in Evals : trace[i].parents = <<>> })
            = Len(requirements)
  /\ result = "Failure" => trace[Len(trace)].ev = "violated"
  /\ (Done /\ NoneSkipped
        /\ \E i \in DOMAIN requirements :
             TopSubstitutes(i) /\ Violated(TopReq(i)))
       => result = "Failure"

C6_Witness ==
  /\ result = "Failure"
  /\ \E i \in EvalsOf({"substFailure"}) :
       \E k \in EvalsOf({"violated"}) :
         i < k /\ trace[k].parents = <<>> /\ pendingReqs # <<>>

\* the first requirement of the top-level list was violated
FirstRequirementFailed ==
  /\ Len(trace) >= 2
  /\ trace[2].ev = "violated"
  /\ trace[2].parents = <<>>

\* C7 (as stated): when the first top-level requirement fails the check
\* returns Failure and the later requirements of the list are still
\* evaluated.
C7_LaterRequirementsStillEvaluated ==
  (Done /\ FirstRequirementFailed) =>
    /\ result = "Failure"
    /\ Cardinality({ i \in Evals : trace[i].parents = <<>> })
         = Len(requirements)

\* C7 (amended): when the first top-level requirement is violated the check
\* returns Failure at once and evaluates no later requirement; a Conformance
\* violation is not diagnosed by the check, any other kind is diagnosed as
\* the primary error (empty parent chain) when loc is valid and the listener
\* does not take it over.
C7_FirstFailureStops ==
  FirstRequirementFailed =>
    /\ result = "Failure"
    /\ Len(trace) = 2
    /\ diags = IF loc /\ ~Claimed /\ trace[2].raw.kind # "Conformance"
                 THEN <<EventOf(trace[2])>>
                 ELSE <<>>

C7_Witness ==
  /\ FirstRequirementFailed
  /\ result = "Failure"
  /\ Len(requirements) >= 2
  /\ diags # <<>>
  /\ diags[1].stack = <<>>

\* C8 (as stated): when several conditional requirements are violated in one
\* call, all of them are reported in the diagnostics and the call returns
\* Failure.
C8_AllNestedFailuresReported ==
  (Done /\ loc /\ ~listener
     /\ \A i \in DOMAIN requirements :
          TopSubstitutes(i) /\ ~Violated(TopReq(i)))
    => \A r \in ConditionalReqs :
         Violated(r) =>
           /\ result = "Failure"
           /\ \E k \in DOMAIN diags :
                /\ diags[k].primary.first = r.first
                /\ diags[k].note.second = r.second

\* C8 (amended): the first violated conditional requirement the check meets
\* makes it return Failure at once: at most one requirement is ever found
\* violated in a call and at most one diagnostic event is emitted, for that
\* requirement, however many conditional requirements are violated.
C8_FirstNestedFailureOnly ==
  /\ Cardinality(EvalsOf({"violated"})) <= 1
  /\ Len(diags) <= 1
  /\ \A i \in EvalsOf({"violated"}) :
       /\ result = "Failure"
       /\ \A k \in DOMAIN diags : diags[k] = EventOf(trace[i])
       /\ Cardinality({ k \in DOMAIN listenerCalls :
            listenerCalls[k].call = "diagnoseUnsatisfiedRequirement" }) <= 1

C8_Witness ==
  /\ result = "Failure"
  /\ Len(diags) = 1
  /\ diags[1].stack # <<>>
  /\ Cardinality({ r \in ConditionalReqs : Violated(r) }) >= 2

(***************************************************************************)
(* checkReferencedGenericParams: what the declaration says, read off its   *)
(* formal types and requirements without running the loops.                *)
(***************************************************************************)
ParamNames == { SignatureParams[i] : i \in DOMAIN SignatureParams }
OwnParams == { p \in ParamNames : getDepth(p) = fnGenericParamsDepth }

\* the types a requirement relates
TypesOf(r) ==
  {r.first} \cup (IF r.kind \in {"Superclass", "SameType"}
                    THEN {r.second} ELSE {})

\* parameters that occur in r at all, and those that occur bare (not only as
\* the base of a dependent member type)
Mentioned(r) == { t.base : t \in TypesOf(r) } \cap ParamNames
MentionedBare(r) ==
  { t.base : t \in { u \in TypesOf(r) : u.members = <<>> } } \cap ParamNames

\* parameters that occur bare in a formal parameter type or the result type
DirectlyReferenced ==
  { t.base : t \in { u \in rdecl.formalTypes : u.members = <<>> } }
    \cap ParamNames

\* least set holding K and, for every requirement that mentions a member of
\* the set, the parameters that occur bare in that requirement
RECURSIVE ReachedBy(_)
ReachedBy(K) ==
  LET rs == { rdecl.requirements[i] : i \in DOMAIN rdecl.requirements }
      N  == K \cup UNION { MentionedBare(r) :
                             r \in { q \in rs : Mentioned(q) \cap K # {} } }
  IN IF N = K THEN K ELSE ReachedBy(N)

Unreferenced == OwnParams \ ReachedBy(DirectlyReferenced)

\* checkReferencedGenericParams ran to its end on a generic non-accessor
RefChecked == rpc = "done" /\ ~rdecl.isAccessor /\ rdecl.hasGenericParams

(***************************************************************************)
(* Claims about checkReferencedGenericParams.                              *)
(***************************************************************************)
\* C9: after the check of a generic non-accessor declaration, the declaration
\* is invalid with the error type as interface type exactly when some
\* parameter of its own depth is neither referenced bare in a formal type nor
\* reached by the closure over the requirements; one diagnostic is emitted
\* per such parameter, in signature order, and none for an outer parameter.
C9_InvalidIffUnreferenced ==
  RefChecked =>
    /\ declInvalid <=> Unreferenced # {}
    /\ declInterfaceType = "error" <=> Unreferenced # {}
    /\ rdiags = SelectSeq(SignatureParams, LAMBDA p : p \in Unreferenced)
    /\ \A k \in DOMAIN rdiags : getDepth(rdiags[k]) = fnGenericParamsDepth

C9_Witness ==
  /\ RefChecked
  /\ declInvalid
  /\ Len(rdiags) >= 2
  /\ Param("O") \notin referencedGenericParams
  /\ "T3" \notin DirectlyReferenced
  /\ Param("T3") \in referencedGenericParams

\* the chain T1 == T2.M, T2 == T3.N, T3 == U and its last k links
ChainReqs ==
  <<SameType(Param("T1"), GTy("T2", <<"M">>, 0)),
    SameType(Param("T2"), GTy("T3", <<"N">>, 0)),
    SameType(Param("T3"), Param("U"))>>
ChainParams == <<"T1", "T2", "T3">>
ChainPresent(k) ==
  /\ \A i \in (Len(ChainReqs) + 1 - k)..Len(ChainReqs) :
       \E j \in DOMAIN rdecl.requirements : rdecl.requirements[j] = ChainReqs[i]
  /\ "U" \in DirectlyReferenced

\* C10: when the signature holds the chain T1 == T2.M, T2 == T3.N, T3 == U
\* (or its last one or two links) and U is referenced in the formal types,
\* every parameter of the chain ends up referenced and undiagnosed, wherever
\* the links stand in the requirement list; with the whole chain no error is
\* reported at all.
C10_ChainReferenced ==
  RefChecked =>
    \A k \in 1..Len(ChainReqs) :
      ChainPresent(k) =>
        /\ \A i \in (Len(ChainReqs) + 1 - k)..Len(ChainReqs) :
             /\ Param(ChainParams[i]) \in referencedGenericParams
             /\ \A d \in DOMAIN rdiags : rdiags[d] # ChainParams[i]
        /\ k = Len(ChainReqs) =>
             /\ rdiags = <<>>
             /\ ~declInvalid
             /\ declInterfaceType = "function"

C10_Witness ==
  /\ RefChecked
  /\ rdecl.requirements = ChainReqs
  /\ rdecl.formalTypes = {Param("U")}
  /\ rdiags = <<>>
  /\ rpasses = Len(ChainReqs) + 1

\* C11: every run of the fixed-point loop of checkReferencedGenericParams
\* ends: it makes at most (number of requirements + 1) full passes, hands at
\* most that many times the whole list to reqTypesVisitor, is never stuck
\* inside a pass, and leaves the loop only after a pass that added nothing.
C11_FixedPointTerminates ==
  LET n == Len(rdecl.requirements)
  IN /\ rpasses <= n + 1
     /\ Len(rvisits) <= n * (n + 1)
     /\ rpc = "reqs" => rreqs = rdecl.requirements /\ rreq \in 1..(n + 1)
     /\ rpc = "reqs" => ENABLED (VisitRequirement \/ NextPass \/ FixedPoint)
     /\ rpc = "after" => ~rfound /\ rpasses >= 1

C11_Witness ==
  /\ rpc = "after"
  /\ Len(rdecl.requirements) = 3
  /\ rpasses = 4
  /\ Len(rvisits) = 12

(***************************************************************************)
(* Claims about validateGenericFuncOrSubscriptSignature,                   *)
(* validateGenericTypeSignature and checkGenericEnvironment.               *)
(***************************************************************************)
\* a function, constructor or subscript with a generic parameter list
GenericFuncOrSubscript ==
  InFuncOrSubscript /\ hasGenericParams /\ sdecl.kind # "accessor"

\* the statements expected for such a declaration, read off its result and
\* parameter type locations: the result is checked structurally unless it is
\* absent or opaque, requirements are inferred from it when it is written in
\* the source, and it is resolved at the end unless it is absent
ExpectedSteps ==
  <<"setDepth", "GenericSignatureBuilder", "forStructural",
    "checkGenericParamList", "typeCheckParameterList:structural",
    "inferRequirements:params">>
    \o (IF ~isNull(resultTyLoc) /\ resultTyLoc.repr # "opaque"
          THEN <<"validateType:structural">> ELSE <<>>)
    \o (IF resultTyLoc.repr # "none"
          THEN <<"inferRequirements:result">> ELSE <<>>)
    \o <<"computeGenericSignature", "revertDependentTypeLoc:result">>
    \o [i \in DOMAIN params |-> "revertDependentTypeLoc:param"]
    \o <<"createGenericEnvironment", "setGenericEnvironment", "forInterface",
         "typeCheckParameterList:interface">>
    \o (IF isNull(resultTyLoc) THEN <<>>
        ELSE IF resultTyLoc.repr = "opaque"
          THEN <<"getOrCreateOpaqueResultType">>
          ELSE <<"validateType:interface">>)
    \o <<"computeType">>

\* types that only the interface pass produces
InterfaceTypes == {"interface", "opaque"}

\* C12: for a function or subscript with a generic parameter list of its own
\* the statements run in the order: structural check of the lists, inference
\* from the parameters, structural check of the result, inference from the
\* result, computeGenericSignature, revert of the result and of every
\* parameter, creation of the environment, interface pass over parameters and
\* result; what has run so far is always a prefix of that order, the whole of
\* it at the end, and no type location holds an interface type before the
\* signature is computed.
C12_StepsInOrder ==
  GenericFuncOrSubscript =>
    /\ Len(steps) <= Len(ExpectedSteps)
    /\ steps = SubSeq(ExpectedSteps, 1, Len(steps))
    /\ spc = "done" => steps = ExpectedSteps
    /\ (\/ resultTyLoc.type \in InterfaceTypes
        \/ \E i \in DOMAIN params : params[i].type \in InterfaceTypes)
         => /\ sig.origin = "built"
            /\ genericEnvironment = Environment(sig, 1)

C12_Witness ==
  /\ GenericFuncOrSubscript
  /\ spc = "done"
  /\ Len(params) = 2
  /\ params[1].type = "interface"
  /\ params[2].type = "error"
  /\ resultTyLoc = TypeLoc("plain", "interface")
  /\ steps = ExpectedSteps

\* a declaration without a generic parameter list that one of the two
\* validate functions handles
NoOwnGenericParams ==
  /\ ~hasGenericParams
  /\ InFuncOrSubscript \/ (InType /\ sdecl.kind # "protocol")

\* statements that create or drive the builder of the declaration's signature
BuilderSteps ==
  {"GenericSignatureBuilder", "forStructural", "checkGenericParamList",
   "inferRequirements:params", "inferRequirements:result",
   "inferRequirements", "computeGenericSignature",
   "createGenericEnvironment"}

\* C13: a function, subscript or non-protocol type declaration without a
\* generic parameter list of its own has, from the first statement on, the
\* very environment of its context; no builder is created for its signature,
\* no builder statement runs and no environment is created.
C13_InheritsContextEnvironment ==
  NoOwnGenericParams =>
    /\ spc # "entry" => genericEnvironment = ContextEnvironment
    /\ \A i \in DOMAIN buildersCreated : buildersCreated[i] # "declaration"
    /\ builder = NoBuilder
    /\ envsCreated = 0
    /\ \A i \in DOMAIN steps : steps[i] \notin BuilderSteps

C13_Witness ==
  /\ NoOwnGenericParams
  /\ spc = "done"
  /\ sdecl.kind = "func"
  /\ sdecl.contextGeneric
  /\ genericEnvironment = Environment(Signature("context", 0, <<>>), 0)
  /\ buildersCreated = <<"opaqueResult">>

\* C14: an accessor leaves validateGenericFuncOrSubscriptSignature with the
\* environment of its storage declaration; no builder and no environment is
\* created, neither pass runs and no type location is resolved.
C14_AccessorUsesStorageEnvironment ==
  (InFuncOrSubscript /\ sdecl.kind = "accessor") =>
    /\ spc = "done" => genericEnvironment = getStorageEnvironment
    /\ buildersCreated = <<>>
    /\ builder = NoBuilder
    /\ envsCreated = 0
    /\ \A i \in DOMAIN steps :
         steps[i] \in {"setDepth", "setGenericEnvironment", "computeType"}
    /\ resultTyLoc.type \in {"null", "preset"}
    /\ \A i \in DOMAIN params : params[i].type \in {"null", "preset"}
    /\ spc \in {"entry", "configured", "done"}

C14_Witness ==
  /\ InFuncOrSubscript
  /\ sdecl.kind = "accessor"
  /\ sdecl.storage = "genericSubscript"
  /\ sdecl.contextGeneric
  /\ spc = "done"
  /\ genericEnvironment = Environment(StorageSignature, 0)
  /\ Len(params) = 2

\* the call is for an extension of a nominal type that adds no constraint and
\* whose innermost generic parameter list is as deep as the last parameter of
\* the nominal type's signature
ExtensionAddsNothing ==
  /\ envCall.ext \in {"nominal", "protocol"}
  /\ ~envCall.trailingWhereClause
  /\ ~envCall.mustInferRequirements
  /\ envCall.extendedDepth # NoDepth
  /\ envCall.extendedDepth = envCall.depth

\* checkGenericEnvironment has its signature
EnvironmentSigned ==
  /\ envCall # NoEnvCall
  /\ spc \in {"env:signed", "env:returned", "done"}

\* C15: in checkGenericEnvironment an extension that adds no constraint and
\* whose innermost list has the depth of the extended nominal type takes the
\* nominal type's signature object itself, with no builder created; in every
\* other case the signature is the one computed by a builder created in the
\* call, a different object.
C15_ReuseOrBuild ==
  EnvironmentSigned =>
    IF ExtensionAddsNothing
      THEN /\ sig = NominalSignature
           /\ buildersCreated = <<>>
           /\ builder = NoBuilder
           /\ \A i \in DOMAIN steps : steps[i] # "computeGenericSignature"
      ELSE /\ sig = Signature("built", 1, builder.ops)
           /\ sig # NominalSignature
           /\ buildersCreated = <<"declaration">>
           /\ ~builder.live
           /\ \E i \in DOMAIN steps : steps[i] = "computeGenericSignature"

C15_Witness ==
  /\ EnvironmentSigned
  /\ ExtensionAddsNothing
  /\ spc = "done"
  /\ envCall.depth = 1
  /\ envReturned = Environment(NominalSignature, 1)

(***************************************************************************)
(* Claims about getOrCreateOpaqueResultType.                               *)
(***************************************************************************)
\* the calls that returned after creating an OpaqueTypeDecl
CreatingCalls == { i \in DOMAIN ocalls : ocalls[i].path = "created" }

\* C16: over any sequence of calls for one declaration at most one
\* OpaqueTypeDecl is created; the recorded declaration is the one the creating
\* call made; every call after the creating one takes the early return, gives
\* back the declared interface type of the recorded declaration (the type the
\* creating call returned), and creates no builder, generic parameter or
\* declaration.
C16_AtMostOneOpaqueDecl ==
  /\ ocreated.decls <= 1
  /\ Cardinality(CreatingCalls) <= 1
  /\ opaqueResultTypeDecl # NoOpaqueTypeDecl <=> CreatingCalls # {}
  /\ \A i \in CreatingCalls :
       /\ opaqueResultTypeDecl.serial = 1
       /\ getDeclaredInterfaceType(opaqueResultTypeDecl) = ocalls[i].returned
       /\ ocreated = ocalls[i].made
       /\ \A j \in DOMAIN ocalls :
            j > i => /\ ocalls[j].path = "existing"
                     /\ ocalls[j].returned = ocalls[i].returned
                     /\ ocalls[j].made = ocalls[i].made

C16_Witness ==
  /\ Len(ocalls) = 3
  /\ ocalls[1].path = "created"
  /\ ocalls[2].path = "existing"
  /\ ocalls[3].returned = OpaqueTypeArchetypeType(1)
  /\ ocreated = [builders |-> 1, params |-> 1, decls |-> 1]

\* C17: for a protocol requirement every call returns the error type and
\* emits one opaque_type_in_protocol_requirement diagnostic; no OpaqueTypeDecl
\* is recorded, no builder is created and no signature is computed, however
\* often the function is called.
C17_ProtocolRequirementRejected ==
  inProtocolRequirement =>
    /\ opaqueResultTypeDecl = NoOpaqueTypeDecl
    /\ ocreated = [builders |-> 0, params |-> 0, decls |-> 0]
    /\ obuilder = <<>>
    /\ interfaceSignature = NoGenericSignature
    /\ \A i \in DOMAIN ocalls :
         /\ ocalls[i].path = "protocolRequirement"
         /\ ocalls[i].returned = OpaqueErrorType
    /\ odiags = [i \in DOMAIN ocalls |-> "opaque_type_in_protocol_requirement"]

C17_Witness ==
  /\ inProtocolRequirement
  /\ odecl.constraint.kind = "existential"
  /\ Len(ocalls) = 3
  /\ Len(odiags) = 3
  /\ opc = "idle"

\* the requirements handed to the builder by addRequirement, in order
AddedRequirements ==
  LET calls == SelectSeq(obuilder, LAMBDA c : c.op = "addRequirement")
  IN [i \in DOMAIN calls |-> calls[i].arg]

\* how many of the added requirements are of kind k
AddedOfKind(k) ==
  Cardinality({ i \in DOMAIN AddedRequirements :
                  AddedRequirements[i].kind = k })

\* the builder of the call has been given the requirements of the constraint
RequirementsAdded ==
  obuilder # <<>> /\ opc \in {"compute", "declare", "idle"}

\* C18: the synthesized parameter has index 0 and the depth of the last outer
\* parameter plus one (0 without outer signature), so it is none of the outer
\* parameters; every added requirement has it as subject; a class bound adds
\* exactly one Superclass requirement, an existential bound one Superclass
\* requirement if it has a superclass, one Conformance requirement per
\* protocol (all different) and one Layout requirement if it has a layout
\* constraint, and nothing else.
C18_SynthesizedParamAndRequirements ==
  /\ returnTypeParam # NoGenericTypeParam =>
       /\ returnTypeParam.index = 0
       /\ returnTypeParam.depth =
            IF odecl.outer = NoGenericSignature THEN 0
            ELSE odecl.outer.params[Len(odecl.outer.params)].depth + 1
       /\ \A k \in DOMAIN odecl.outer.params :
            odecl.outer.params[k] # returnTypeParam
  /\ RequirementsAdded =>
       LET c == odecl.constraint
       IN /\ \A i \in DOMAIN AddedRequirements :
               AddedRequirements[i].first = returnTypeParam
          /\ \A i, j \in DOMAIN AddedRequirements :
               AddedRequirements[i] = AddedRequirements[j] => i = j
          /\ AddedOfKind("Superclass") =
               IF c.kind = "class" \/ c.superclass THEN 1 ELSE 0
          /\ AddedOfKind("Conformance") = c.protocols
          /\ AddedOfKind("Layout") = IF c.layout THEN 1 ELSE 0
          /\ Len(AddedRequirements) =
               AddedOfKind("Superclass") + AddedOfKind("Conformance")
                 + AddedOfKind("Layout")

C18_Witness ==
  /\ RequirementsAdded
  /\ odecl.constraint.kind = "existential"
  /\ odecl.constraint.superclass
  /\ odecl.constraint.layout
  /\ odecl.constraint.protocols = 2
  /\ Len(AddedRequirements) = 4
  /\ odecl.outer # NoGenericSignature
  /\ returnTypeParam.depth = 2

\* C19 as stated: the signature computed for the opaque type has exactly one
\* generic parameter, the synthesized one, with or without an enclosing
\* generic signature.
C19_OneParameterSignature ==
  interfaceSignature # NoGenericSignature =>
    interfaceSignature.params = <<returnTypeParam>>

\* C19: the signature computed for the opaque type comes from the builder
\* created in the call; its generic parameters are those of the enclosing
\* generic signature, in order, followed by the synthesized parameter, and its
\* requirements are those of the enclosing signature followed by the ones
\* added for the constraint; it has the synthesized parameter alone exactly
\* when there is no enclosing generic signature.
C19_OuterParamsThenSynthesized ==
  interfaceSignature # NoGenericSignature =>
    /\ interfaceSignature.params = odecl.outer.params \o <<returnTypeParam>>
    /\ interfaceSignature.requirements =
         odecl.outer.requirements \o AddedRequirements
    /\ Len(interfaceSignature.params) = 1
         <=> odecl.outer = NoGenericSignature
    /\ opaqueResultTypeDecl # NoOpaqueTypeDecl =>
         opaqueResultTypeDecl.signature = interfaceSignature

C19_Witness ==
  /\ opaqueResultTypeDecl # NoOpaqueTypeDecl
  /\ Len(odecl.outer.params) = 2
  /\ Len(odecl.outer.requirements) = 1
  /\ Len(opaqueResultTypeDecl.signature.params) = 3
  /\ opaqueResultTypeDecl.signature.params[3] = opaqueResultTypeDecl.param
  /\ opc = "idle"

(***************************************************************************)
(* checkGenericArguments: the graph of conditional requirements reachable  *)
(* from the checked requirements, and the work it stands for.              *)
(***************************************************************************)
Max(S) == CHOOSE m \in S : \A n \in S : n <= m

\* the conditional requirements of the conformance that satisfies r, in the
\* order of the conformance
ConditionalSeq(r) ==
  IF r.kind # "Conformance" THEN <<>>
  ELSE conformsToProtocol(r.first, r.second.base).conditionalReqs

\* the longest chain of conditional requirement sets below requirement r;
\* defined because the graph is acyclic
RECURSIVE DepthBelow(_)
DepthBelow(r) ==
  LET cs == ConditionalSeq(r)
  IN IF cs = <<>> THEN 0
     ELSE 1 + Max({ DepthBelow(cs[k]) : k \in DOMAIN cs })

\* the depth of the graph under the top-level requirements
GraphDepth == Max({0} \cup { DepthBelow(r) : r \in TopReqs })

\* the loop iterations behind requirement r: its own, and when its
\* conformance has conditional requirements one pop and theirs
RECURSIVE IterationsFor(_), IterationsForAll(_)
IterationsFor(r) ==
  LET cs == ConditionalSeq(r)
  IN IF cs = <<>> THEN 1 ELSE 2 + IterationsForAll(cs)
IterationsForAll(rs) ==
  IF rs = <<>> THEN 0
  ELSE IterationsFor(Head(rs)) + IterationsForAll(Tail(rs))

\* the i-th requirement of a set as the inner loop checks it
CheckedIn(set, i) ==
  IF set.Parents # <<>> THEN set.Requirements[i]
  ELSE IF TopSubstitutes(i) THEN TopReq(i)
  ELSE NoRequirement

\* the iterations left for a set from position `from` on
RemainingIn(set, from) ==
  IterationsForAll([k \in 1..(Len(set.Requirements) - from + 1) |->
                      CheckedIn(set, k + from - 1)])

RECURSIVE RemainingPending(_)
RemainingPending(sets) ==
  IF sets = <<>> THEN 0
  ELSE 1 + RemainingIn(Head(sets), 1) + RemainingPending(Tail(sets))

\* iterations and pops still ahead, plus the final test of the while loop
WorkLeft ==
  IF Done THEN 0
  ELSE 1 + RemainingPending(pendingReqs)
         + (IF idx <= Len(current.Requirements)
              THEN RemainingIn(current, idx) ELSE 0)

\* the same for the call as a whole, from its arguments
TotalWork ==
  1 + RemainingPending(<<RequirementSet(requirements, <<>>)>>)

\* the parent chains of the sets on the work-list and of the set last popped
\* (every set ever pushed is one of these in some state)
SetsSeen ==
  { pendingReqs[i].Parents : i \in DOMAIN pendingReqs } \cup { current.Parents }

\* C20: for the finite acyclic graph of conditional requirements under the
\* checked requirements the loop ends: the steps taken (pops and inner
\* iterations) plus the work still ahead never exceed the finite total
\* computed from the graph, the loop is never stuck before it returns, it
\* returns Success or SubstitutionFailure only with an empty work-list, and
\* the parent chain of every set pushed or popped is no longer than the
\* depth of the graph.
C20_TerminatesWithBoundedParents ==
  /\ Len(trace) + WorkLeft <= TotalWork
  /\ ~Done => ENABLED NextArgs
  /\ result \in {"Success", "SubstitutionFailure"} => pendingReqs = <<>>
  /\ LET depth == GraphDepth
     IN \A ps \in SetsSeen : Len(ps) <= depth

C20_Witness ==
  /\ result = "Success"
  /\ GraphDepth = MaxNesting
  /\ Len(trace) + 1 = TotalWork
  /\ NoneSkipped
  /\ Cardinality(EvalsOf({"pop"})) >= 3
  /\ \E i \in DOMAIN trace :
       trace[i].ev = "pop" /\ Len(trace[i].parents) = GraphDepth

(***************************************************************************)
(* Further claims about checkGenericArguments.                             *)
(***************************************************************************)
\* the step just taken evaluated a requirement with outcome ev
Evaluated(evs) ==
  /\ Len(trace') = Len(trace) + 1
  /\ trace'[Len(trace')].ev \in evs

\* C21: a requirement the listener vetoes is not dispatched: the step goes to
\* the next requirement of the same set, returns nothing, pushes no
\* conditional requirement set, reports no conformance to the listener and
\* emits no diagnostic; only a requirement that substituted without error
\* reaches the listener's test, and without a listener every such requirement
\* is dispatched to its kind-specific check.
C21_VetoedNotDispatched ==
  [][ /\ Evaluated({"skipped"}) =>
           /\ listener /\ Substituted
           /\ result' = "none"
           /\ pendingReqs' = pendingReqs
           /\ current' = current
           /\ idx' = idx + 1
           /\ valid' = valid
           /\ listenerCalls' = listenerCalls
           /\ diags' = diags
      /\ (Substituted /\ ~listener) => Evaluated({"satisfied", "violated"})
    ]_vars

\* a vetoed requirement that fails its check and a vetoed conformance with
\* conditional requirements, in a call that returns Success after one pop
C21_Witness ==
  /\ result = "Success"
  /\ Cardinality(EvalsOf({"pop"})) = 1
  /\ \E i, j \in EvalsOf({"skipped"}) :
       /\ Violated(CheckedReq(trace[i]))
       /\ ConditionalSeq(CheckedReq(trace[j])) # <<>>

RequirementViolated == EvalsOf({"violated"}) # {}

\* what the checker emits for the violated requirement: the primary error,
\* the requirement note and the notes of its parent chain
ViolationDiagnosed == diags = <<EventOf(trace[Len(trace)])>>

\* C23 as stated: whenever a requirement is violated the result is Failure;
\* if the listener claimed the failure the checker emits nothing, otherwise
\* it emits the diagnostic exactly when loc is valid.
C23_DiagnosedIffLocValid ==
  RequirementViolated =>
    /\ result = "Failure"
    /\ trace[Len(trace)].ev = "violated"
    /\ IF Claimed THEN diags = <<>>
       ELSE IF loc THEN ViolationDiagnosed ELSE diags = <<>>

\* C23: whenever a requirement is violated the result is Failure and the
\* violation is the last thing evaluated.  A violated top-level Conformance
\* requirement is returned without asking the listener and without any
\* diagnostic, also when loc is valid.  For every other violation: if the
\* listener claimed the failure the checker emits nothing; otherwise it emits
\* the primary error, the requirement note and the notes of the parent chain
\* exactly when loc is valid.
C23_DiagnosedIffLocValidBelowTopLevel ==
  RequirementViolated =>
    /\ result = "Failure"
    /\ trace[Len(trace)].ev = "violated"
    /\ IF TopLevelConformanceFailed
         THEN /\ diags = <<>>
              /\ \A k \in DOMAIN listenerCalls :
                   listenerCalls[k].call # "diagnoseUnsatisfiedRequirement"
       ELSE IF Claimed THEN diags = <<>>
       ELSE IF loc THEN ViolationDiagnosed ELSE diags = <<>>

\* a conditional requirement two expansions deep is violated, the listener
\* declines and loc is valid: one diagnostic with a two-frame stack
C23_Witness ==
  /\ RequirementViolated
  /\ listener /\ ~Claimed /\ loc
  /\ ViolationDiagnosed
  /\ Len(diags[1].stack) = 2
  /\ listenerCalls # <<>>
  /\ listenerCalls[Len(listenerCalls)].call = "diagnoseUnsatisfiedRequirement"

(***************************************************************************)
(* Further claims about checkReferencedGenericParams.                      *)
(***************************************************************************)
\* the declaration is an accessor or has no generic parameter list
ExemptFromReferenceCheck == rdecl.isAccessor \/ ~rdecl.hasGenericParams

\* C24: for an accessor, and for a context without a generic parameter list,
\* the call returns at once: no type is walked and no requirement visited, no
\* diagnostic is emitted, the interface type of the declaration stays the
\* function type it was and the declaration is not marked invalid, whether
\* or not a generic parameter of the signature is unreferenced.
C24_ExemptDeclarationsUntouched ==
  ExemptFromReferenceCheck =>
    /\ rpc \in {"entry", "done"}
    /\ rdiags = <<>>
    /\ declInterfaceType = "function"
    /\ ~declInvalid
    /\ referencedGenericParams = {}
    /\ rreqs = <<>>
    /\ rvisits = <<>>

\* an accessor with a generic parameter list, two of whose parameters are
\* unreferenced, after the call
C24_Witness ==
  /\ rpc = "done"
  /\ rdecl.isAccessor /\ rdecl.hasGenericParams
  /\ Cardinality(Unreferenced) >= 2
  /\ rdecl.requirements # <<>>

(***************************************************************************)
(* Claims about the requests for generic environments.                     *)
(***************************************************************************)
RequestsWith(d, outcome) ==
  { k \in DOMAIN requests :
      requests[k].decl = d /\ requests[k].outcome = outcome }

SubstitutedBy(ss, t) ==
  IF t.base \notin GenericParams THEN t
  ELSE IF ss[t.base] = NullType THEN NullType
  ELSE Ty(ss[t.base].base, ss[t.base].boxes + t.boxes)

\* the top-level requirements of rs that substitute under ss and carry no
\* error type, as positions and in the form in which they are checked
SubstitutingIn(rs, ss) ==
  { i \in DOMAIN rs :
      LET f == SubstitutedBy(ss, rs[i].first)
          g == IF rs[i].kind = "Layout" THEN rs[i].second
               ELSE SubstitutedBy(ss, rs[i].second)
      IN f # NullType /\ g # NullType /\ ~hasError(f) /\ ~hasError(g) }

CheckedForm(ss, r) ==
  Req(r.kind, InContext(SubstitutedBy(ss, r.first)),
      IF r.kind = "Layout" THEN r.second
      ELSE InContext(SubstitutedBy(ss, r.second)))

\* what a call without listener returns when it runs alone: Failure when a
\* requirement reachable from the substituting top-level requirements is
\* violated, otherwise SubstitutionFailure when a top-level requirement
\* does not substitute, otherwise Success
ResultOf(rs, ss) ==
  LET ok == SubstitutingIn(rs, ss)
      reached == ReachedFrom({ CheckedForm(ss, rs[i]) : i \in ok })
  IN IF \E r \in reached : Violated(r) THEN "Failure"
     ELSE IF ok = DOMAIN rs THEN "Success"
     ELSE "SubstitutionFailure"

Returned(c) == c.result \notin {"none", "absent"}

\* C26 for one call: a call without listener that runs alone returns
\* ResultOf its requirements and substitution.
C26_AloneReturnsResultOf ==
  (Done /\ ~listener) => result = ResultOf(requirements, substitutions)

SignatureComputed == gsbSignature # NoGenericSignature

\* the calls that register the parameters and then add the requirements
\* of the list in the order q of its positions
CallsInOrder(q) ==
  [i \in DOMAIN BuilderParams |->
     BuilderCall("addGenericParameter", BuilderParams[i])]
  \o [i \in DOMAIN gsbRequirements |->
        BuilderCall("addRequirement", gsbRequirements[q[i]])]

\* C27: whatever the order in which the requirements of a list were added
\* to a builder with the parameters <T, U, V>, the signature computed is
\* the one computed after adding them in any other order.
C27_SignatureIndependentOfOrder ==
  SignatureComputed =>
    \A q \in Permutations(DOMAIN gsbRequirements) :
      gsbSignature = computeGenericSignature(CallsInOrder(q))

\* three different requirements, a same-type requirement among them, were
\* added last to first and the signature was computed
C27_Witness ==
  /\ SignatureComputed
  /\ Len(gsbRequirements) = 3
  /\ Cardinality({ gsbRequirements[i] : i \in DOMAIN gsbRequirements }) = 3
  /\ \E i \in DOMAIN gsbRequirements : gsbRequirements[i].kind = "SameType"
  /\ \E i \in DOMAIN gsbRequirements : gsbRequirements[i].kind = "Conformance"
  /\ \A i \in DOMAIN gsbRequirements :
       gsbCalls[Len(BuilderParams) + i].arg
         = gsbRequirements[Len(gsbRequirements) + 1 - i]
  /\ Len(gsbSignature.requirements) = 3

\* the types that the same-type requirements of rs make the same as one
\* of the types of S
RECURSIVE sameTypeReach(_, _)
sameTypeReach(rs, S) ==
  LET ties == { r \in rs : r.kind = "SameType" }
      next == S \cup { r.second : r \in { x \in ties : x.first \in S } }
                \cup { r.first : r \in { x \in ties : x.second \in S } }
  IN IF next = S THEN S ELSE sameTypeReach(rs, next)

\* r follows from the requirements rs under same-type substitution
Derivable(r, rs) ==
  IF r.kind = "SameType"
    THEN r.second \in sameTypeReach(rs, {r.first})
    ELSE \E o \in rs : /\ o.kind = r.kind
                       /\ o.second = r.second
                       /\ o.first \in sameTypeReach(rs, {r.first})

AddedRequirementSet == { gsbRequirements[i] : i \in DOMAIN gsbRequirements }
RetainedRequirementSet ==
  { gsbSignature.requirements[i] : i \in DOMAIN gsbSignature.requirements }

\* C28: in a computed signature no requirement follows from the other
\* retained requirements under same-type substitution; when a conformance
\* a: I and a same-type requirement between a and b were added, a: I and
\* b: I are not both retained; and every requirement that was added follows
\* from the retained ones.
C28_NoRetainedRequirementDerivable ==
  SignatureComputed =>
    LET rs == gsbSignature.requirements
    IN /\ \A i \in DOMAIN rs :
            ~Derivable(rs[i], { rs[j] : j \in DOMAIN rs \ {i} })
       /\ \A c, t \in AddedRequirementSet :
            (/\ c.kind = "Conformance" /\ t.kind = "SameType"
             /\ c.first \in {t.first, t.second})
            => ~({Req("Conformance", t.first, c.second),
                  Req("Conformance", t.second, c.second)}
                   \subseteq RetainedRequirementSet)
       /\ \A r \in AddedRequirementSet : Derivable(r, RetainedRequirementSet)

\* T: P1, U: P1 and T == U were added; T: P1 and T == U are retained
C28_Witness ==
  /\ SignatureComputed
  /\ AddedRequirementSet =
       {Conformance(BuilderParams[1], "P1"),
        Conformance(BuilderParams[2], "P1"),
        SameType(BuilderParams[1], BuilderParams[2])}
  /\ gsbSignature.requirements =
       <<Conformance(BuilderParams[1], "P1"),
         SameType(BuilderParams[1], BuilderParams[2])>>

(***************************************************************************)
(* Claims about the work-list of checkGenericArguments.                    *)
(***************************************************************************)
\* the requirements rs are the conditional requirements found by following
\* the frames ps, one satisfied conformance per frame, from the
\* requirements of level
RECURSIVE ExpandsTo(_, _, _)
ExpandsTo(level, ps, rs) ==
  LET r == Req("Conformance", ps[1].type, ps[1].proto)
  IN /\ r \in level
     /\ ~Violated(r)
     /\ IF Len(ps) = 1
          THEN rs = conformsToProtocol(r.first, r.second.base).conditionalReqs
          ELSE ExpandsTo(ConditionalOf(r), Tail(ps), rs)

\* a requirement set is the seed, or as many expansions below the top-level
\* requirements as its chain has frames
SeedOrExpansion(s) ==
  IF s.Parents = <<>>
    THEN s = RequirementSet(requirements, <<>>)
    ELSE ExpandsTo(TopReqs, s.Parents, s.Requirements)

\* the step pushed a set onto the work-list
Pushed == Len(pendingReqs') = Len(pendingReqs) + 1

\* C29: the seed is the only set with an empty parent chain, on the
\* work-list until the first pop and never again; every other set is
\* reached from the top-level requirements by one satisfied conformance per
\* frame of its chain; and a push appends one set whose chain is the chain
\* of the set being processed followed by the frame (subject type,
\* interface) of the conformance just satisfied, leaving the set being
\* processed and the sets already pending as they were.
C29_WorkListChains ==
  /\ [](/\ \A i \in DOMAIN pendingReqs :
             /\ SeedOrExpansion(pendingReqs[i])
             /\ pendingReqs[i].Parents = <<>> => (i = 1 /\ trace = <<>>)
        /\ trace # <<>> => SeedOrExpansion(current)
        /\ \A i \in DOMAIN trace :
             (trace[i].ev = "pop" /\ trace[i].parents = <<>>) => i = 1)
  /\ [][Pushed =>
          /\ req.kind = "Conformance"
          /\ pendingReqs' =
               Append(pendingReqs,
                      RequirementSet(
                        conformsToProtocol(firstType, secondType.base)
                          .conditionalReqs,
                        Append(current.Parents,
                               [type |-> firstType, proto |-> secondType])))
          /\ current' = current]_vars

\* a set with a chain of two frames is being processed while another set
\* is pending
C29_Witness ==
  /\ Len(current.Parents) = 2
  /\ current.Parents[1].type = Ty("Int", 2)
  /\ current.Parents[2].type = Ty("Int", 1)
  /\ pendingReqs # <<>>

\* the pops of the work-list in the trace
Pops == EvalsOf({"pop"})

\* the number of requirements of the set with the parent chain ps
SizeOfSet(ps) ==
  IF ps = <<>> THEN Len(requirements)
  ELSE Len(conformsToProtocol(ps[Len(ps)].type, ps[Len(ps)].proto.base)
             .conditionalReqs)

\* the step popped a set from the work-list
Popped == Len(pendingReqs') = Len(pendingReqs) - 1

\* C30: a conditional requirement is evaluated only after every requirement
\* of the top-level list was evaluated; between two pops all the
\* requirements of the set popped first are evaluated and no others; a pop
\* takes the set pushed most recently; and after a top-level Conformance
\* failure no conditional requirement was evaluated or diagnosed.
C30_TopLevelFirstThenMostRecent ==
  /\ [](/\ \A i \in Evals :
             trace[i].parents # <<>> =>
               Cardinality({ j \in Evals : j < i /\ trace[j].parents = <<>> })
                 = Len(requirements)
        /\ \A i \in Pops :
             LET later == { j \in Pops : j > i }
                 next == IF later = {} THEN Len(trace) + 1
                         ELSE CHOOSE j \in later : \A k \in later : j <= k
             IN /\ \A k \in (i + 1)..(next - 1) :
                     trace[k].parents = trace[i].parents
                /\ later # {} => next - i - 1 = SizeOfSet(trace[i].parents)
        /\ TopLevelConformanceFailed =>
             /\ \A i \in DOMAIN trace : trace[i].parents = <<>>
             /\ \A i \in DOMAIN diags : diags[i].stack = <<>>)
  /\ [][Popped =>
          /\ idx > Len(current.Requirements)
          /\ current' = pendingReqs[Len(pendingReqs)]
          /\ pendingReqs' = SubSeq(pendingReqs, 1, Len(pendingReqs) - 1)]_vars

\* two top-level conformances pushed a set each; the set pushed second was
\* processed first, to its end, and then the set pushed first was popped
C30_Witness ==
  /\ Len(requirements) = 2
  /\ \E i, j \in Pops :
       /\ 1 < i /\ i < j
       /\ Len(trace[i].parents) = 1 /\ Len(trace[j].parents) = 1
       /\ trace[i].parents[1].proto = trace[3].second
       /\ trace[j].parents[1].proto = trace[2].second
       /\ trace[2].second # trace[3].second
       /\ \E k \in Evals : i < k /\ k < j

(***************************************************************************)
(* Claims about the listener of checkGenericArguments.                     *)
(***************************************************************************)
\* the satisfiedConformance calls the listener received, in order
SatisfiedConformanceCalls ==
  SelectSeq(listenerCalls, LAMBDA c : c.call = "satisfiedConformance")

\* the positions of the trace before which no requirement failed to
\* substitute or carried an error type
StillValidAt(i) ==
  \A j \in 1..(i - 1) : trace[j].ev \notin {"substFailure", "errorType"}

\* the satisfied top-level conformances of the trace that were evaluated
\* while the check was still valid
Reportable ==
  { i \in DOMAIN trace :
      /\ trace[i].ev = "satisfied"
      /\ trace[i].raw.kind = "Conformance"
      /\ trace[i].parents = <<>>
      /\ StillValidAt(i) }

\* C31: every satisfiedConformance call is for a satisfied Conformance
\* requirement of the top-level set, evaluated when no earlier requirement
\* of the call had failed to substitute or carried an error type; the
\* listener receives one call for each such requirement and no other, so
\* none for a conditional requirement and none after a substitution failure.
C31_SatisfiedConformanceOnlyTopLevelAndValid ==
  /\ \A k \in DOMAIN SatisfiedConformanceCalls :
       \E i \in Reportable :
         /\ SatisfiedConformanceCalls[k].raw = trace[i].raw
         /\ SatisfiedConformanceCalls[k].first = trace[i].first
         /\ SatisfiedConformanceCalls[k].parents = <<>>
         /\ ~Violated(CheckedReq(trace[i]))
  /\ Len(SatisfiedConformanceCalls)
       = IF listener THEN Cardinality(Reportable) ELSE 0

\* a call with a listener: one top-level conformance was reported, its
\* conditional requirement was satisfied and not reported, and a top-level
\* conformance satisfied after a substitution failure was not reported
C31_Witness ==
  /\ listener
  /\ Done
  /\ Len(SatisfiedConformanceCalls) = 1
  /\ \E i, j, k, l \in DOMAIN trace :
       /\ i < j /\ j < k
       /\ i \in Reportable
       /\ trace[j].ev = "substFailure"
       /\ trace[k].ev = "satisfied" /\ trace[k].parents = <<>>
       /\ trace[k].raw.kind = "Conformance"
       /\ trace[l].ev = "satisfied" /\ trace[l].parents # <<>>
       /\ trace[l].raw.kind = "Conformance"

(***************************************************************************)
(* Claims about the requirement visitor of checkReferencedGenericParams.   *)
(***************************************************************************)
\* the parameters that are in the referenced set as bare parameters
ReferencedBare ==
  { p \in ParamNames : Param(p) \in referencedGenericParams }

\* the requirement T1.M == U of the declaration
MemberTiedToU == SameType(GTy("T1", <<"M">>, 0), Param("U"))

\* T1 occurs bare neither in a formal type nor in a requirement
T1OnlyAsBase ==
  /\ "T1" \notin DirectlyReferenced
  /\ \A i \in DOMAIN rdecl.requirements :
       "T1" \notin MentionedBare(rdecl.requirements[i])

\* C32: a parameter is in the referenced set only if it occurs bare in a
\* formal type or in a requirement; with the requirement T1.M == U, U
\* referenced in a formal type and T1 occurring only as the base of
\* dependent member types, T1 is not referenced after the check and is
\* diagnosed; and a visit of a requirement adds the parameters that occur
\* bare in it exactly when the root of some type parameter in it, on either
\* side, is already referenced.
C32_OnlyBareParametersMarked ==
  /\ [](/\ ReferencedBare \subseteq
             DirectlyReferenced
               \cup UNION { MentionedBare(rdecl.requirements[i]) :
                              i \in DOMAIN rdecl.requirements }
        /\ (/\ RefChecked
            /\ \E i \in DOMAIN rdecl.requirements :
                 rdecl.requirements[i] = MemberTiedToU
            /\ "U" \in DirectlyReferenced
            /\ T1OnlyAsBase)
           => /\ Param("T1") \notin referencedGenericParams
              /\ \E d \in DOMAIN rdiags : rdiags[d] = "T1")
  /\ [][Len(rvisits') = Len(rvisits) + 1 =>
          LET r == rvisits'[Len(rvisits')]
          IN referencedGenericParams' =
               IF Mentioned(r) \cap ReferencedBare # {}
                 THEN referencedGenericParams
                        \cup { Param(q) : q \in MentionedBare(r) }
                 ELSE referencedGenericParams]_vars

\* the check ran on a declaration with T1.M == U and T3 == U, U referenced
\* in a formal type and T1.M a formal type itself: T3 was marked through
\* the second side of its requirement, T1 was diagnosed
C32_Witness ==
  /\ RefChecked
  /\ \E i \in DOMAIN rdecl.requirements :
       rdecl.requirements[i] = MemberTiedToU
  /\ \E i \in DOMAIN rdecl.requirements :
       rdecl.requirements[i] = SameType(Param("T3"), Param("U"))
  /\ "U" \in DirectlyReferenced
  /\ "T3" \notin DirectlyReferenced
  /\ GTy("T1", <<"M">>, 0) \in rdecl.formalTypes
  /\ T1OnlyAsBase
  /\ Param("T3") \in referencedGenericParams
  /\ GTy("T1", <<"M">>, 0) \in referencedGenericParams
  /\ Param("T1") \notin referencedGenericParams
  /\ \E d \in DOMAIN rdiags : rdiags[d] = "T1"

(***************************************************************************)
(* Claims about the type locations between the two passes of               *)
(* validateGenericFuncOrSubscriptSignature.                                *)
(***************************************************************************)
\* what revertDependentTypeLoc is claimed to do to the location before,
\* giving the location after
RevertedAsClaimed(before, after) ==
  /\ after.repr = before.repr
  /\ IF before.repr = "none" THEN after = before
     ELSE IF before.type = "error" THEN after = before
     ELSE after.type = "null"

\* the location is in error and the step leaves it as it is
ErrorKept(before, after) == before.type = "error" => after = before

\* the step is the revert between the two passes
RevertStep == spc = "finalized" /\ spc' = "reverted"

\* the interface pass over parameters and result is done
InterfacePassDone ==
  GenericFuncOrSubscript /\ spc \in {"resultResolved", "done"}

\* C33: the revert between the passes clears the type of every location
\* that has a type representation and is not in error, keeps the error type
\* of a location in error and leaves a location without representation as
\* it is; a location in error is never given another type by a later step;
\* and after the interface pass no location with a representation is left
\* with its structural type.
C33_RevertKeepsErrors ==
  /\ [][/\ RevertStep =>
             /\ RevertedAsClaimed(resultTyLoc, resultTyLoc')
             /\ DOMAIN params' = DOMAIN params
             /\ \A i \in DOMAIN params :
                  RevertedAsClaimed(params[i], params'[i])
        /\ ErrorKept(resultTyLoc, resultTyLoc')
        /\ \A i \in DOMAIN params \cap DOMAIN params' :
             ErrorKept(params[i], params'[i])]_vars
  /\ [](InterfacePassDone =>
          /\ resultTyLoc.repr # "none" => resultTyLoc.type # "dependent"
          /\ \A i \in DOMAIN params :
               IF params[i].repr = "none" THEN params[i].type = "preset"
               ELSE params[i].type \in {"interface", "error"})

\* after the revert: a parameter that failed in the structural pass is
\* still in error, another one was cleared, and the result, which has no
\* type representation, is as it was
C33_Witness ==
  /\ spc = "reverted"
  /\ \E i, j \in DOMAIN params :
       /\ params[i] = TypeLoc("plain", "error")
       /\ params[j] = TypeLoc("plain", "null")
  /\ resultTyLoc = TypeLoc("none", "preset")

(***************************************************************************)
(* C34: the order in which checkGenericParamList feeds the builder         *)
(***************************************************************************)

\* the lists that are fed, each with its depth: the whole chain, outermost
\* first, for nested lists without a parent signature, else the list itself
FedLists ==
  IF envCall # NoEnvCall
    THEN IF Len(envCall.genericParams) > 1 /\ envCall.parentSig = NullSignature
           THEN [k \in 1..Len(envCall.genericParams) |->
                   LET j == Len(envCall.genericParams) + 1 - k
                   IN [list |-> envCall.genericParams[j],
                       depth |-> envCall.depth - (j - 1)]]
           ELSE <<[list |-> envCall.genericParams[1],
                   depth |-> envCall.depth]>>
    ELSE <<[list |-> sdecl.genericParams, depth |-> sdecl.depth]>>

\* the stage of a call on the builder within the feeding of one list
FeedStage(o) ==
  CASE o.op = "addGenericParameter" -> 1
    [] o.op = "addGenericParameterRequirements" -> 2
    [] o.op = "addRequirement" -> 3
    [] OTHER -> 0

\* a comes before b in the claimed order: outer list first, then by stage,
\* then by position in the list or in the where clause
FedBefore(a, b) ==
  \/ a.list < b.list
  \/ a.list = b.list /\ FeedStage(a) < FeedStage(b)
  \/ a.list = b.list /\ FeedStage(a) = FeedStage(b) /\ a.index < b.index

\* the calls one list is expected to receive
FedCalls(f) ==
  { BuilderOp("addGenericParameter", f.depth, i) : i \in 1..f.list.size }
    \cup { BuilderOp("addGenericParameterRequirements", f.depth, i) :
             i \in 1..f.list.size }
    \cup { BuilderOp("addRequirement", f.depth, i) : i \in 1..f.list.where }

\* C34: once the lists were checked, the builder has received, for every fed
\* list, the parent signature first, then all its generic parameters, then
\* the declared requirements of all of them, then the where-clause
\* requirements in clause order, each exactly once; no declared requirement
\* of a parameter comes before the last parameter of its list; the lists of
\* a nested chain without parent signature come outermost first
C34_FeedOrder ==
  builder.ops # <<>> =>
    LET ops == builder.ops
        fed == { p \in DOMAIN ops : FeedStage(ops[p]) > 0 }
    IN /\ \A a \in fed : \A b \in fed :
            a < b => FedBefore(ops[a], ops[b])
       /\ { ops[p] : p \in fed }
            = UNION { FedCalls(FedLists[k]) : k \in DOMAIN FedLists }
       /\ ops[1].op = "addGenericSignature"
       /\ \A p \in fed :
            (FeedStage(ops[p]) = 1 /\ ops[p].index = 1) =>
               ops[p - 1].op = "addGenericSignature"
       /\ \A p \in DOMAIN ops :
            ops[p].op = "addGenericSignature" =>
               /\ p + 1 \in fed
               /\ FeedStage(ops[p + 1]) = 1 /\ ops[p + 1].index = 1
               /\ ops[p].index =
                    (IF (IF envCall # NoEnvCall THEN envCall.parentSig
                                               ELSE ContextSignature)
                          = NullSignature
                       \/ Len(FedLists) > 1
                       THEN 0 ELSE 1)
       /\ \A a \in fed : \A b \in fed :
            (FeedStage(ops[a]) = 2 /\ FeedStage(ops[b]) = 1
              /\ ops[a].list = ops[b].list) => b < a

\* a chain of two lists without parent signature was fed, each list with two
\* parameters and a where clause
C34_Witness ==
  /\ envCall # NoEnvCall /\ envCall.parentSig = NullSignature
  /\ Len(envCall.genericParams) = 2
  /\ \A k \in 1..2 : envCall.genericParams[k].size = 2
                       /\ envCall.genericParams[k].where >= 1
  /\ Len(builder.ops) >= 12

(***************************************************************************)
(* C35: the failing paths of getOrCreateOpaqueResultType                   *)
(***************************************************************************)

\* the calls that failed on the constraint
FailedOnConstraint ==
  { i \in DOMAIN ocalls : ocalls[i].path \in {"unresolved", "invalid"} }

\* the calls that went as far as resolving the constraint
ResolvedConstraint ==
  { i \in DOMAIN ocalls :
      ocalls[i].path \in {"unresolved", "invalid", "created"} }

\* C35: a call that fails because the constraint does not resolve, or
\* resolves to a type that is neither a class nor an existential, returns the
\* type of the constraint location (the error type, or the resolved type),
\* creates nothing and records no opaque type declaration; every later call,
\* as long as none has succeeded in between, resolves the constraint again
\* (and diagnoses an invalid constraint again) instead of reusing a result
C35_FailureNotRecorded ==
  /\ \A i \in FailedOnConstraint :
       /\ ocalls[i].returned =
            (IF ocalls[i].path = "unresolved"
               THEN OpaqueErrorType
               ELSE ResultType(odecl.constraint.kind, 0))
       /\ ocalls[i].made = [builders |-> 0, params |-> 0, decls |-> 0]
       /\ i = Len(ocalls) => opaqueResultTypeDecl = NoOpaqueTypeDecl
       /\ \A j \in DOMAIN ocalls :
            (j > i /\ \A k \in i..(j - 1) : ocalls[k].path # "created")
              => j \in ResolvedConstraint
  /\ Cardinality({ k \in DOMAIN odiags :
                     odiags[k] = "opaque_type_invalid_constraint" })
       = Cardinality({ i \in DOMAIN ocalls : ocalls[i].path = "invalid" })

\* the constraint failed to resolve in the first call; the second and the
\* third call resolved it again and found it invalid
C35_Witness ==
  /\ Len(ocalls) = 3
  /\ ocalls[1].path = "unresolved"
  /\ ocalls[2].path = "invalid"
  /\ ocalls[3].path = "invalid"
  /\ ocalls[3].returned = ResultType("struct", 0)
  /\ opaqueResultTypeDecl = NoOpaqueTypeDecl

====
